---------------------------- MODULE Spec2Model ----------------------------
(***************************************************************************)
(* Dynamic load balancing simulator (load_balancer.c and                   *)
(* load_balancer_interactive.c): the min-heap keyed by load, the greedy    *)
(* task assignment, the threshold-triggered rebalancing, the interactive   *)
(* menu loop and the interactive topology graph.                           *)
(*                                                                         *)
(* Loads, capacities and thresholds are C floats in the source.  They are  *)
(* modelled as exact rationals [n, d] in lowest terms (d > 0); the         *)
(* rounding of single-precision arithmetic is not modelled.                *)
(*                                                                         *)
(* Array indices are 0-based as in the source: the heap array arr is a     *)
(* function on 0..size-1 and the server registry a function on 0..N-1.     *)
(***************************************************************************)
EXTENDS Integers, Sequences, FiniteSets, Bags, TLC

VARIABLES
    driver,         \* which program runs: "heap" (the heap functions alone),
                    \* "graph", "interactive" or "auto"
    pc,             \* position of the running program
    op,             \* the operation executed by the last step
    heap,           \* MinHeap: [arr, size, capacity]
    minServer,      \* HeapNode returned by the last extractMin
    heapCall,       \* heap on its own: serverId and load passed to the last
                    \* insertHeap or updateHeap call
    servers,        \* Server registry: 0..N-1 -> [capacity, currentLoad]
    numServers,     \* number of servers N
    taskLoads,      \* TaskData.taskLoads, indexed 0..numTasks-1
    numTasks,       \* TaskData.numTasks / NUM_TASKS
    threshold,      \* rebalance threshold (percent)
    interval,       \* rebalance interval (tasks)
    tasksAssigned,  \* task cursor of the simulation loop
    taskLoad,       \* local taskLoad of the assignment in progress
    inAll,          \* TRUE inside the "assign all remaining tasks" loop
    seedI,          \* loop index i of the heap seeding loop
    reb,            \* locals of the rebalanceLoads call made by the last step
    log,            \* console: the (server, load) pairs of the "Task .. ->
                    \* Server .." lines printed so far
    migrations,     \* console: number of REBALANCING TRIGGERED blocks so far
    manualCount,    \* number of manual rebalances chosen so far
    calls,          \* the rebalanceLoads calls the task loops made so far:
                    \* the task count and the locals of each call
    verdict,        \* console: the final verdict line
    graph,          \* Graph: [numServers, adjList]
    gi, gj, gn,     \* random topology generation: i, j, neighbors
    edgeSrc,        \* src of the last edge entered or drawn
    edgeDest,       \* dest of the last edge entered or drawn
    addRet,         \* return value of the last addEdge call (-1: not called)
    edgeLog,        \* the edges <<src, dest>> added so far, in the order of
                    \* the calls (interactive: the "Added edge" lines)
    typed,          \* getIntInput: the lines typed on standard input
    inbuf,          \* getIntInput: the characters of stdin not yet read
    minVal, maxVal, \* getIntInput: the range asked for
    value,          \* getIntInput: local value (0 until scanf stores one)
    prompts,        \* console: number of prompts getIntInput printed
    errors          \* console: number of error lines getIntInput printed

heapVars == <<heap, minServer>>
configVars == <<numServers, taskLoads, numTasks, threshold, interval>>
simVars == <<servers, tasksAssigned, taskLoad, inAll, seedI, reb, log, migrations,
             manualCount, calls, verdict>>
graphVars == <<graph, gi, gj, gn, edgeSrc, edgeDest, addRet, edgeLog>>
inputVars == <<typed, inbuf, minVal, maxVal, value, prompts, errors>>
vars == <<driver, pc, op, heapVars, heapCall, configVars, simVars, graphVars,
          inputVars>>

(***************************************************************************)
(* Bounds of the model.                                                    *)
(***************************************************************************)
MaxHeapCap == 4       \* capacities of the heap exercised on its own
MaxHeapId == 1        \* server ids 0..MaxHeapId given to the heap on its own

\* loads given to the heap exercised on its own
HeapLoads == {0, 1, 2}

MaxGraphServers == 4  \* interactive topology: number of servers
MaxEdges == 2         \* interactive topology: edges accepted by manual entry
MaxRandomServers == 3 \* interactive topology: servers of a random topology

MaxFindServers == 4   \* most/least loaded lookup on its own: servers
\* loads of the servers given to the lookup on its own
FindLoads == {0, 1, 2}

MaxLines == 3         \* getIntInput: lines typed
MaxPrompts == 5       \* getIntInput: prompts printed (endless at end of input)

MaxServers == 3       \* interactive: number of servers entered (source: 1-20)
MaxTasks == 4         \* interactive: number of tasks entered (source: 1-1000)
MaxManual == 1        \* interactive: manual rebalances chosen in one run

\* interactive: capacities entered (source: 50-200), task loads entered
\* (source: 0.1-50), thresholds entered (source: 0.1-100) and intervals
\* entered (source: 1-100)
CapacityChoices == {50, 100}
TaskLoadChoices == {10, 30}
ThresholdChoices == {20}
IntervalChoices == {1, 2, 4}

\* automated driver: the constants of load_balancer.c
NUM_SERVERS == 6
NUM_TASKS == 30
REBALANCE_THRESHOLD == 20
REBALANCE_INTERVAL == 5
\* automated driver: capacities drawn in [80, 120]; task loads drawn in
\* [5, 15]: either end for the first MaxAutoDraws tasks, the middle after
MaxAutoDraws == 3
AutoCapacityChoices == {80, 120}
AutoTaskLoadChoices == {5, 15}
AutoTaskLoadLater == {10}

\* interactive, with the numbers of load_balancer.c entered: the tasks
\* entered, their loads, and the capacities of servers 0..5
ParityTasks == 6
ParityTaskLoadChoices == {5, 40}
ParityCapacities == {<<80, 80, 80, 80, 80, 80>>, <<80, 120, 80, 120, 80, 120>>}

(***************************************************************************)
(* float arithmetic, as exact rationals.                                   *)
(***************************************************************************)
Abs(x) == IF x < 0 THEN -x ELSE x

RECURSIVE Gcd(_, _)
Gcd(a, b) == IF b = 0 THEN a ELSE Gcd(b, a % b)

Rat(n, d) ==
    LET g == Gcd(Abs(n), Abs(d))
        s == IF d < 0 THEN -1 ELSE 1
    IN  [n |-> (s * n) \div g, d |-> (s * d) \div g]

FromInt(i) == [n |-> i, d |-> 1]

RAdd(x, y) == Rat(x.n * y.d + y.n * x.d, x.d * y.d)
RSub(x, y) == Rat(x.n * y.d - y.n * x.d, x.d * y.d)
RMul(x, y) == Rat(x.n * y.n, x.d * y.d)
RDiv(x, y) == Rat(x.n * y.d, x.d * y.n)
RLt(x, y) == x.n * y.d < y.n * x.d
RLe(x, y) == x.n * y.d <= y.n * x.d

(***************************************************************************)
(* MIN HEAP FUNCTIONS                                                      *)
(***************************************************************************)
HeapNode(serverId, load) == [serverId |-> serverId, load |-> load]

createMinHeap(capacity) ==
    [arr |-> [k \in {} |-> 0], size |-> 0, capacity |-> capacity]

swap(arr, a, b) == [arr EXCEPT ![a] = arr[b], ![b] = arr[a]]

RECURSIVE heapifyUp(_, _)
heapifyUp(arr, index) ==
    IF index = 0 THEN arr
    ELSE LET parentIdx == (index - 1) \div 2
         IN  IF RLt(arr[index].load, arr[parentIdx].load)
             THEN heapifyUp(swap(arr, index, parentIdx), parentIdx)
             ELSE arr

RECURSIVE heapifyDown(_, _, _)
heapifyDown_LeftOnly(arr, size, index) ==
    LET leftChild == 2 * index + 1
        smallest == IF leftChild < size
                       /\ RLt(arr[leftChild].load, arr[index].load)
                    THEN leftChild ELSE index
    IN  IF smallest # index
        THEN heapifyDown(swap(arr, index, smallest), size, smallest)
        ELSE arr

heapifyDown(arr, size, index) ==
    LET leftChild == 2 * index + 1
        rightChild == 2 * index + 2
        s1 == IF leftChild < size
                 /\ RLt(arr[leftChild].load, arr[index].load)
              THEN leftChild ELSE index
        smallest == IF rightChild < size
                       /\ RLt(arr[rightChild].load, arr[s1].load)
                    THEN rightChild ELSE s1
    IN  IF smallest # index
        THEN heapifyDown(swap(arr, index, smallest), size, smallest)
        ELSE arr

\* insertHeap with the capacity test off by one
insertHeap_CapOffByOne(h, serverId, load) ==
    IF h.size + 1 >= h.capacity
    THEN h
    ELSE [h EXCEPT
            !.arr = heapifyUp([k \in (DOMAIN h.arr) \cup {h.size} |->
                                  IF k = h.size
                                  THEN [serverId |-> serverId, load |-> load]
                                  ELSE h.arr[k]],
                              h.size),
            !.size = h.size + 1]

\* arr with slot `index` written (the slot is new when index = size)
store(arr, index, node) ==
    [i \in (DOMAIN arr) \cup {index} |-> IF i = index THEN node ELSE arr[i]]

insertHeap(h, serverId, load) ==
    IF h.size >= h.capacity
    THEN h
    ELSE [h EXCEPT
            !.arr = heapifyUp(store(h.arr, h.size, HeapNode(serverId, load)),
                              h.size),
            !.size = h.size + 1]

\* the slots 0..size-1 of arr: what the heap holds once size has shrunk
live(arr, size) == [i \in 0 .. size - 1 |-> arr[i]]

\* extractMin without the sift-down of the element moved into the root
extractMin_NoSift(h) ==
    LET size == h.size - 1
    IN  [min |-> h.arr[0],
         heap |-> [h EXCEPT
                     !.arr = live([h.arr EXCEPT ![0] = h.arr[h.size - 1]],
                                  size),
                     !.size = size]]

\* extractMin on a non-empty heap: [min, heap]
extractMin(h) ==
    LET min == h.arr[0]
        a0 == [h.arr EXCEPT ![0] = h.arr[h.size - 1]]
        size == h.size - 1
        a1 == live(a0, size)
    IN  [min |-> min,
         heap |-> [h EXCEPT !.arr = IF size > 0 THEN heapifyDown(a1, size, 0)
                                    ELSE a1,
                            !.size = size]]

\* the search loop started at index 1
findIndex_SkipsRoot(h, serverId) ==
    LET hits == {i \in 1 .. h.size - 1 : h.arr[i].serverId = serverId}
    IN  IF hits = {} THEN -1
        ELSE CHOOSE i \in hits : \A j \in hits : i <= j

\* the first index holding serverId, -1 when none
findIndex(h, serverId) ==
    LET hits == {i \in 0 .. h.size - 1 : h.arr[i].serverId = serverId}
    IN  IF hits = {} THEN -1
        ELSE CHOOSE i \in hits : \A j \in hits : i <= j

\* updateHeap appending the server it did not find
updateHeap_InsertsAbsent(h, serverId, newLoad) ==
    LET index == findIndex(h, serverId)
    IN  IF index = -1
        THEN insertHeap(h, serverId, newLoad)
        ELSE LET a == [h.arr EXCEPT ![index].load = newLoad]
                 parentIdx == (index - 1) \div 2
             IN  IF index > 0 /\ RLt(a[index].load, a[parentIdx].load)
                 THEN [h EXCEPT !.arr = heapifyUp(a, index)]
                 ELSE [h EXCEPT !.arr = heapifyDown(a, h.size, index)]


updateHeap(h, serverId, newLoad) ==
    LET index == findIndex(h, serverId)
    IN  IF index = -1
        THEN h
        ELSE LET a == [h.arr EXCEPT ![index].load = newLoad]
                 parentIdx == (index - 1) \div 2
             IN  IF index > 0 /\ RLt(a[index].load, a[parentIdx].load)
                 THEN [h EXCEPT !.arr = heapifyUp(a, index)]
                 ELSE [h EXCEPT !.arr = heapifyDown(a, h.size, index)]

(***************************************************************************)
(* LOAD BALANCING FUNCTIONS                                                *)
(***************************************************************************)
RECURSIVE totalFrom(_, _, _)
totalFrom(srv, n, k) ==
    IF k >= n THEN FromInt(0)
    ELSE RAdd(srv[k].currentLoad, totalFrom(srv, n, k + 1))

calculateAverageLoad(srv, n) == RDiv(totalFrom(srv, n, 0), FromInt(n))

getLoadPercentage(server) ==
    RMul(RDiv(server.currentLoad, server.capacity), FromInt(100))

RECURSIVE mostFrom(_, _, _, _)
mostFrom(srv, n, k, mostLoaded) ==
    IF k >= n THEN mostLoaded
    ELSE mostFrom(srv, n, k + 1,
                  IF RLt(srv[mostLoaded].currentLoad, srv[k].currentLoad)
                  THEN k ELSE mostLoaded)

findMostLoadedServer(srv, n) == mostFrom(srv, n, 1, 0)

\* the scan keeping the last of equally loaded servers (<= for <)
RECURSIVE leastFrom_LastTie(_, _, _, _)
leastFrom_LastTie(srv, n, k, leastLoaded) ==
    IF k >= n THEN leastLoaded
    ELSE leastFrom_LastTie(srv, n, k + 1,
                   IF RLe(srv[k].currentLoad, srv[leastLoaded].currentLoad)
                   THEN k ELSE leastLoaded)

RECURSIVE leastFrom(_, _, _, _)
leastFrom(srv, n, k, leastLoaded) ==
    IF k >= n THEN leastLoaded
    ELSE leastFrom(srv, n, k + 1,
                   IF RLt(srv[k].currentLoad, srv[leastLoaded].currentLoad)
                   THEN k ELSE leastLoaded)

findLeastLoadedServer(srv, n) == leastFrom(srv, n, 1, 0)

\* rebalanceLoads that leaves the heap as it was
rebalanceLoads_NoHeapUpdate(srv, n, thr, h) ==
    LET most == findMostLoadedServer(srv, n)
        least == findLeastLoadedServer(srv, n)
        imbalance == RSub(getLoadPercentage(srv[most]),
                          getLoadPercentage(srv[least]))
        amount == RMul(RSub(srv[most].currentLoad,
                            calculateAverageLoad(srv, n)), Rat(1, 2))
        s1 == [srv EXCEPT ![most].currentLoad = RSub(@, amount)]
        s2 == [s1 EXCEPT ![least].currentLoad = RAdd(@, amount)]
        locals(fired) == [fired |-> fired, mostLoadedIdx |-> most,
                          leastLoadedIdx |-> least, imbalance |-> imbalance,
                          migrationAmount |-> amount]
    IN  IF RLt(thr, imbalance)
        THEN [servers |-> s2, heap |-> h, reb |-> locals(TRUE)]
        ELSE [servers |-> srv, heap |-> h, reb |-> locals(FALSE)]

\* rebalanceLoads that takes the amount from the most-loaded server and
\* gives the least-loaded server nothing
rebalanceLoads_Lossy(srv, n, thr, h) ==
    LET most == findMostLoadedServer(srv, n)
        least == findLeastLoadedServer(srv, n)
        imbalance == RSub(getLoadPercentage(srv[most]),
                          getLoadPercentage(srv[least]))
        amount == RMul(RSub(srv[most].currentLoad,
                            calculateAverageLoad(srv, n)), Rat(1, 2))
        s1 == [srv EXCEPT ![most].currentLoad = RSub(@, amount)]
        h1 == updateHeap(h, most, s1[most].currentLoad)
        locals(fired) == [fired |-> fired, mostLoadedIdx |-> most,
                          leastLoadedIdx |-> least, imbalance |-> imbalance,
                          migrationAmount |-> amount]
    IN  IF RLt(thr, imbalance)
        THEN [servers |-> s1, heap |-> h1, reb |-> locals(TRUE)]
        ELSE [servers |-> srv, heap |-> h, reb |-> locals(FALSE)]

\* rebalanceLoads that fires on imbalance >= threshold
rebalanceLoads_FiresOnEqual(srv, n, thr, h) ==
    LET most == findMostLoadedServer(srv, n)
        least == findLeastLoadedServer(srv, n)
        imbalance == RSub(getLoadPercentage(srv[most]),
                          getLoadPercentage(srv[least]))
        amount == RMul(RSub(srv[most].currentLoad,
                            calculateAverageLoad(srv, n)), Rat(1, 2))
        s1 == [srv EXCEPT ![most].currentLoad = RSub(@, amount)]
        s2 == [s1 EXCEPT ![least].currentLoad = RAdd(@, amount)]
        h1 == updateHeap(h, most, s2[most].currentLoad)
        h2 == updateHeap(h1, least, s2[least].currentLoad)
        locals(fired) == [fired |-> fired, mostLoadedIdx |-> most,
                          leastLoadedIdx |-> least, imbalance |-> imbalance,
                          migrationAmount |-> amount]
    IN  IF RLe(thr, imbalance)
        THEN [servers |-> s2, heap |-> h2, reb |-> locals(TRUE)]
        ELSE [servers |-> srv, heap |-> h, reb |-> locals(FALSE)]

\* rebalanceLoads migrating the imbalance (percentage points) as the amount
rebalanceLoads_WholeImbalance(srv, n, thr, h) ==
    LET mostLoadedIdx == findMostLoadedServer(srv, n)
        leastLoadedIdx == findLeastLoadedServer(srv, n)
        imbalance == RSub(getLoadPercentage(srv[mostLoadedIdx]),
                          getLoadPercentage(srv[leastLoadedIdx]))
        migrationAmount == imbalance
        s1 == [srv EXCEPT ![mostLoadedIdx].currentLoad =
                              RSub(@, migrationAmount)]
        s2 == [s1 EXCEPT ![leastLoadedIdx].currentLoad =
                             RAdd(@, migrationAmount)]
        h1 == updateHeap(h, mostLoadedIdx, s2[mostLoadedIdx].currentLoad)
        h2 == updateHeap(h1, leastLoadedIdx, s2[leastLoadedIdx].currentLoad)
        locals(fired) == [fired |-> fired,
                          mostLoadedIdx |-> mostLoadedIdx,
                          leastLoadedIdx |-> leastLoadedIdx,
                          imbalance |-> imbalance,
                          migrationAmount |-> migrationAmount]
    IN  IF RLt(thr, imbalance)
        THEN [servers |-> s2, heap |-> h2, reb |-> locals(TRUE)]
        ELSE [servers |-> srv, heap |-> h, reb |-> locals(FALSE)]

\* rebalanceLoads migrating half the difference between the two servers
rebalanceLoads_EqualisesPair(srv, n, thr, h) ==
    LET mostLoadedIdx == findMostLoadedServer(srv, n)
        leastLoadedIdx == findLeastLoadedServer(srv, n)
        imbalance == RSub(getLoadPercentage(srv[mostLoadedIdx]),
                          getLoadPercentage(srv[leastLoadedIdx]))
        migrationAmount ==
            RMul(RSub(srv[mostLoadedIdx].currentLoad,
                      srv[leastLoadedIdx].currentLoad), Rat(1, 2))
        s1 == [srv EXCEPT ![mostLoadedIdx].currentLoad =
                              RSub(@, migrationAmount)]
        s2 == [s1 EXCEPT ![leastLoadedIdx].currentLoad =
                             RAdd(@, migrationAmount)]
        h1 == updateHeap(h, mostLoadedIdx, s2[mostLoadedIdx].currentLoad)
        h2 == updateHeap(h1, leastLoadedIdx, s2[leastLoadedIdx].currentLoad)
        locals(fired) == [fired |-> fired,
                          mostLoadedIdx |-> mostLoadedIdx,
                          leastLoadedIdx |-> leastLoadedIdx,
                          imbalance |-> imbalance,
                          migrationAmount |-> migrationAmount]
    IN  IF RLt(thr, imbalance)
        THEN [servers |-> s2, heap |-> h2, reb |-> locals(TRUE)]
        ELSE [servers |-> srv, heap |-> h, reb |-> locals(FALSE)]

\* rebalanceLoads migrating the whole excess over the mean, not half of it
rebalanceLoads_WholeExcess(srv, n, thr, h) ==
    LET avgLoad == calculateAverageLoad(srv, n)
        mostLoadedIdx == findMostLoadedServer(srv, n)
        leastLoadedIdx == findLeastLoadedServer(srv, n)
        imbalance == RSub(getLoadPercentage(srv[mostLoadedIdx]),
                          getLoadPercentage(srv[leastLoadedIdx]))
        migrationAmount == RSub(srv[mostLoadedIdx].currentLoad, avgLoad)
        s1 == [srv EXCEPT ![mostLoadedIdx].currentLoad =
                              RSub(@, migrationAmount)]
        s2 == [s1 EXCEPT ![leastLoadedIdx].currentLoad =
                             RAdd(@, migrationAmount)]
        h1 == updateHeap(h, mostLoadedIdx, s2[mostLoadedIdx].currentLoad)
        h2 == updateHeap(h1, leastLoadedIdx, s2[leastLoadedIdx].currentLoad)
        locals(fired) == [fired |-> fired,
                          mostLoadedIdx |-> mostLoadedIdx,
                          leastLoadedIdx |-> leastLoadedIdx,
                          imbalance |-> imbalance,
                          migrationAmount |-> migrationAmount]
    IN  IF RLt(thr, imbalance)
        THEN [servers |-> s2, heap |-> h2, reb |-> locals(TRUE)]
        ELSE [servers |-> srv, heap |-> h, reb |-> locals(FALSE)]

\* rebalanceLoads: the new registry and heap, and the call's locals
rebalanceLoads(srv, n, thr, h) ==
    LET avgLoad == calculateAverageLoad(srv, n)
        mostLoadedIdx == findMostLoadedServer(srv, n)
        leastLoadedIdx == findLeastLoadedServer(srv, n)
        mostLoadedPercent == getLoadPercentage(srv[mostLoadedIdx])
        leastLoadedPercent == getLoadPercentage(srv[leastLoadedIdx])
        imbalance == RSub(mostLoadedPercent, leastLoadedPercent)
        migrationAmount ==
            RMul(RSub(srv[mostLoadedIdx].currentLoad, avgLoad), Rat(1, 2))
        s1 == [srv EXCEPT ![mostLoadedIdx].currentLoad =
                              RSub(@, migrationAmount)]
        s2 == [s1 EXCEPT ![leastLoadedIdx].currentLoad =
                             RAdd(@, migrationAmount)]
        h1 == updateHeap(h, mostLoadedIdx, s2[mostLoadedIdx].currentLoad)
        h2 == updateHeap(h1, leastLoadedIdx, s2[leastLoadedIdx].currentLoad)
        locals(fired) == [fired |-> fired,
                          mostLoadedIdx |-> mostLoadedIdx,
                          leastLoadedIdx |-> leastLoadedIdx,
                          imbalance |-> imbalance,
                          migrationAmount |-> migrationAmount]
    IN  IF RLt(thr, imbalance)
        THEN [servers |-> s2, heap |-> h2, reb |-> locals(TRUE)]
        ELSE [servers |-> srv, heap |-> h, reb |-> locals(FALSE)]

(***************************************************************************)
(* Values of the variables a program does not use.                         *)
(***************************************************************************)
NoNode == [serverId |-> -1, load |-> FromInt(0)]
NoReb == [fired |-> FALSE, mostLoadedIdx |-> -1, leastLoadedIdx |-> -1,
          imbalance |-> FromInt(0), migrationAmount |-> FromInt(0)]
NoGraph == [numServers |-> 0, adjList |-> <<>>]

NoConfig ==
    /\ numServers = 0 /\ taskLoads = <<>> /\ numTasks = 0
    /\ threshold = FromInt(0) /\ interval = 0

NoSim ==
    /\ servers = <<>> /\ tasksAssigned = 0 /\ taskLoad = FromInt(0)
    /\ inAll = FALSE /\ seedI = 0 /\ reb = NoReb /\ log = <<>>
    /\ migrations = 0 /\ manualCount = 0 /\ calls = <<>> /\ verdict = "none"

NoGraphVars ==
    /\ graph = NoGraph /\ gi = 0 /\ gj = 0 /\ gn = 0
    /\ edgeSrc = -1 /\ edgeDest = -1 /\ addRet = -1 /\ edgeLog = <<>>

NoInput ==
    /\ typed = <<>> /\ inbuf = <<>> /\ minVal = 0 /\ maxVal = 0
    /\ value = 0 /\ prompts = 0 /\ errors = 0

(***************************************************************************)
(* The heap functions on their own: any sequence of insertHeap,            *)
(* extractMin (on a non-empty heap) and updateHeap.                        *)
(***************************************************************************)
InitHeap ==
    /\ driver = "heap" /\ pc = "heap" /\ op = "createMinHeap"
    /\ \E c \in 1 .. MaxHeapCap : heap = createMinHeap(c)
    /\ minServer = NoNode
    /\ heapCall = NoNode /\ NoConfig /\ NoSim /\ NoGraphVars /\ NoInput

HInsert(serverId, load) ==
    /\ driver = "heap"
    /\ heap' = insertHeap(heap, serverId, FromInt(load))
    /\ minServer' = NoNode
    /\ heapCall' = HeapNode(serverId, FromInt(load))
    /\ op' = "insertHeap"
    /\ UNCHANGED <<inputVars, driver, pc, configVars, simVars, graphVars>>

HExtract ==
    /\ driver = "heap"
    /\ heap.size > 0
    /\ heap' = extractMin(heap).heap
    /\ minServer' = extractMin(heap).min
    /\ heapCall' = NoNode
    /\ op' = "extractMin"
    /\ UNCHANGED <<inputVars, driver, pc, configVars, simVars, graphVars>>

HUpdate(serverId, newLoad) ==
    /\ driver = "heap"
    /\ heap' = updateHeap(heap, serverId, FromInt(newLoad))
    /\ minServer' = NoNode
    /\ heapCall' = HeapNode(serverId, FromInt(newLoad))
    /\ op' = "updateHeap"
    /\ UNCHANGED <<inputVars, driver, pc, configVars, simVars, graphVars>>

NextHeap ==
    \/ \E s \in 0 .. MaxHeapId, l \in HeapLoads : HInsert(s, l)
    \/ HExtract
    \/ \E s \in 0 .. MaxHeapId, l \in HeapLoads : HUpdate(s, l)

SpecHeap == InitHeap /\ [][NextHeap]_vars

(***************************************************************************)
(* Properties of the heap.                                                 *)
(***************************************************************************)
HeapProperty(h) ==
    \A k \in 1 .. h.size - 1 : RLe(h.arr[(k - 1) \div 2].load, h.arr[k].load)

\* the (serverId, load) entries of a heap, with multiplicity
EntryBag(h) ==
    [e \in {h.arr[k] : k \in 0 .. h.size - 1} |->
        Cardinality({k \in 0 .. h.size - 1 : h.arr[k] = e})]

\* C1: starting from an empty heap, after any sequence of insertHeap,
\* extractMin (on a non-empty heap) and updateHeap, every non-root index
\* k < size satisfies arr[k].load >= arr[(k-1)/2].load.
C1_HeapInvariant ==
    /\ DOMAIN heap.arr = 0 .. heap.size - 1
    /\ HeapProperty(heap)

\* a full heap of two levels below the root, with distinct loads in it,
\* reached by an updateHeap
C1_Witness ==
    /\ driver = "heap" /\ op = "updateHeap" /\ heap.size = 4
    /\ RLt(heap.arr[0].load, heap.arr[1].load)
    /\ RLt(heap.arr[1].load, heap.arr[3].load)

\* C2: extractMin on a non-empty heap returns an entry whose load is the
\* minimum over all entries present, size decreases by exactly one, the heap
\* afterwards holds the same multiset of entries minus the returned one, and
\* it satisfies the heap property again.
C2_ExtractMinCorrect ==
    [][op' = "extractMin" =>
        /\ \A k \in 0 .. heap.size - 1 :
              RLe(minServer'.load, heap.arr[k].load)
        /\ heap'.size = heap.size - 1
        /\ EntryBag(heap') (+) SetToBag({minServer'}) = EntryBag(heap)
        /\ HeapProperty(heap')]_vars

\* an extractMin that left three entries behind, the returned one strictly
\* smaller than one of them
C2_Witness ==
    /\ driver = "heap" /\ op = "extractMin" /\ heap.size = 3
    /\ \E k \in 0 .. 2 : RLt(minServer.load, heap.arr[k].load)

(***************************************************************************)
(* GRAPH FUNCTIONS                                                         *)
(***************************************************************************)
createGraph(n) == [numServers |-> n, adjList |-> [k \in 0 .. n - 1 |-> <<>>]]

edgeExists(g, src, dest) ==
    \E k \in 1 .. Len(g.adjList[src]) : g.adjList[src][k] = dest

\* addEdge without the duplicate check
addEdge_NoDuplicateCheck(g, src, dest) ==
    IF src < 0 \/ src >= g.numServers \/ dest < 0 \/ dest >= g.numServers
    THEN [ret |-> 0, graph |-> g]
    ELSE IF src = dest
    THEN [ret |-> 0, graph |-> g]
    ELSE [ret |-> 1,
          graph |-> [g EXCEPT !.adjList[src] = <<dest>> \o @]]

\* addEdge linking the new node at the tail of the list
addEdge_AppendsAtTail(g, src, dest) ==
    IF src < 0 \/ src >= g.numServers \/ dest < 0 \/ dest >= g.numServers
    THEN [ret |-> 0, graph |-> g]
    ELSE IF src = dest
    THEN [ret |-> 0, graph |-> g]
    ELSE IF edgeExists(g, src, dest)
    THEN [ret |-> 0, graph |-> g]
    ELSE [ret |-> 1,
          graph |-> [g EXCEPT !.adjList[src] = Append(@, dest)]]

\* interactive addEdge: [ret, graph]; the new node goes to the head of the
\* list
addEdge(g, src, dest) ==
    IF src < 0 \/ src >= g.numServers \/ dest < 0 \/ dest >= g.numServers
    THEN [ret |-> 0, graph |-> g]
    ELSE IF src = dest
    THEN [ret |-> 0, graph |-> g]
    ELSE IF edgeExists(g, src, dest)
    THEN [ret |-> 0, graph |-> g]
    ELSE [ret |-> 1,
          graph |-> [g EXCEPT !.adjList[src] = <<dest>> \o @]]

(***************************************************************************)
(* inputGraphTopology of the interactive driver, on its own: manual edge   *)
(* entry, or random generation.                                            *)
(***************************************************************************)
NoHeapVars ==
    heap = createMinHeap(0) /\ minServer = NoNode /\ heapCall = NoNode

EdgeCount(g) ==
    LET RECURSIVE count(_)
        count(k) == IF k >= g.numServers THEN 0
                    ELSE Len(g.adjList[k]) + count(k + 1)
    IN  count(0)

InitGraph ==
    /\ driver = "graph" /\ op = "createGraph"
    /\ \/ /\ pc = "manualEdges"
          /\ \E n \in (1 .. MaxGraphServers) \cup {6} : graph = createGraph(n)
       \/ /\ pc = "randomGen"
          /\ \E n \in 1 .. MaxRandomServers : graph = createGraph(n)
    /\ gi = 0 /\ gj = 0 /\ gn = 0
    /\ edgeSrc = -1 /\ edgeDest = -1 /\ addRet = -1 /\ edgeLog = <<>>
    /\ NoHeapVars /\ NoConfig /\ NoSim /\ NoInput

\* scanf("%d %d", &src, &dest) read two numbers, src != -1: addEdge
ManualEdge(src, dest) ==
    /\ driver = "graph" /\ pc = "manualEdges"
    /\ src # -1
    /\ EdgeCount(graph) < MaxEdges
    /\ graph' = addEdge(graph, src, dest).graph
    /\ addRet' = addEdge(graph, src, dest).ret
    /\ edgeLog' = IF addEdge(graph, src, dest).ret = 1
                  THEN Append(edgeLog, <<src, dest>>) ELSE edgeLog
    /\ edgeSrc' = src /\ edgeDest' = dest
    /\ op' = "addEdge"
    /\ UNCHANGED <<heapCall, inputVars, driver, pc, heapVars, configVars, simVars, gi, gj, gn>>

\* src == -1: break
ManualFinish(dest) ==
    /\ driver = "graph" /\ pc = "manualEdges"
    /\ pc' = "topologyDone"
    /\ edgeSrc' = -1 /\ edgeDest' = dest
    /\ addRet' = -1 /\ UNCHANGED edgeLog
    /\ op' = "finishEdges"
    /\ UNCHANGED <<heapCall, inputVars, driver, heapVars, configVars, simVars, graph, gi, gj, gn>>

\* int neighbors = 1 + (rand() % 3);
RandomNeighbors ==
    /\ driver = "graph" /\ pc = "randomGen"
    /\ gi < graph.numServers /\ gn = 0
    /\ gn' \in 1 .. 3
    /\ gj' = 0
    /\ addRet' = -1 /\ UNCHANGED edgeLog
    /\ op' = "neighbors"
    /\ UNCHANGED <<heapCall, inputVars, driver, pc, heapVars, configVars, simVars, graph, gi,
                   edgeSrc, edgeDest>>

\* int dest = rand() % numServers;
\* if (dest != i && !edgeExists(graph, i, dest)) addEdge(graph, i, dest);
RandomPick(dest) ==
    /\ driver = "graph" /\ pc = "randomGen"
    /\ gi < graph.numServers /\ gn > 0 /\ gj < gn
    /\ edgeSrc' = gi /\ edgeDest' = dest
    /\ IF dest # gi /\ ~edgeExists(graph, gi, dest)
       THEN /\ graph' = addEdge(graph, gi, dest).graph
            /\ addRet' = addEdge(graph, gi, dest).ret
            /\ edgeLog' = IF addEdge(graph, gi, dest).ret = 1
                          THEN Append(edgeLog, <<gi, dest>>) ELSE edgeLog
            /\ op' = "addEdge"
       ELSE /\ UNCHANGED graph
            /\ addRet' = -1 /\ UNCHANGED edgeLog
            /\ op' = "skipEdge"
    /\ IF gj + 1 < gn
       THEN gj' = gj + 1 /\ UNCHANGED <<gi, gn>>
       ELSE gj' = 0 /\ gn' = 0 /\ gi' = gi + 1
    /\ UNCHANGED <<heapCall, inputVars, driver, pc, heapVars, configVars, simVars>>

RandomDone ==
    /\ driver = "graph" /\ pc = "randomGen"
    /\ gi >= graph.numServers
    /\ pc' = "topologyDone"
    /\ addRet' = -1 /\ UNCHANGED edgeLog
    /\ op' = "finishRandom"
    /\ UNCHANGED <<heapCall, inputVars, driver, heapVars, configVars, simVars, graph, gi, gj, gn,
                   edgeSrc, edgeDest>>

\* numbers an operator may type for an endpoint: in range, and out of range
\* on either side
EdgeInputs(g) == (-2 .. g.numServers) \cup {99}

NextGraph ==
    \/ \E src \in EdgeInputs(graph), dest \in EdgeInputs(graph) :
          ManualEdge(src, dest)
    \/ \E dest \in EdgeInputs(graph) : ManualFinish(dest)
    \/ RandomNeighbors
    \/ \E dest \in 0 .. graph.numServers - 1 : RandomPick(dest)
    \/ RandomDone

SpecGraph == InitGraph /\ [][NextGraph]_vars

(***************************************************************************)
(* load_balancer.c: the heap, the balancing functions and the task loop of *)
(* the automated driver, translated from that file on their own (the       *)
(* operators above are those of load_balancer_interactive.c).              *)
(***************************************************************************)
RECURSIVE lb_heapifyUp(_, _)
lb_heapifyUp(h, index) ==
    IF index = 0 THEN h
    ELSE LET parentIdx == (index - 1) \div 2
         IN  IF RLt(h.arr[index].load, h.arr[parentIdx].load)
             THEN lb_heapifyUp([h EXCEPT !.arr[index] = h.arr[parentIdx],
                                         !.arr[parentIdx] = h.arr[index]],
                               parentIdx)
             ELSE h

RECURSIVE lb_heapifyDown(_, _)
lb_heapifyDown(h, index) ==
    LET leftChild == 2 * index + 1
        rightChild == 2 * index + 2
        viaLeft == IF leftChild < h.size
                      /\ RLt(h.arr[leftChild].load, h.arr[index].load)
                   THEN leftChild ELSE index
        smallest == IF rightChild < h.size
                       /\ RLt(h.arr[rightChild].load, h.arr[viaLeft].load)
                    THEN rightChild ELSE viaLeft
    IN  IF smallest # index
        THEN lb_heapifyDown([h EXCEPT !.arr[index] = h.arr[smallest],
                                      !.arr[smallest] = h.arr[index]],
                            smallest)
        ELSE h

lb_insertHeap(h, serverId, load) ==
    IF h.size >= h.capacity
    THEN h
    ELSE LET node == [serverId |-> serverId, load |-> load]
             written == [h EXCEPT !.arr = [k \in 0 .. h.size |->
                                              IF k = h.size THEN node
                                              ELSE h.arr[k]]]
         IN  [lb_heapifyUp(written, h.size) EXCEPT !.size = h.size + 1]

\* extractMin on a non-empty heap: [min, heap]
lb_extractMin(h) ==
    LET moved == [h EXCEPT !.arr = [k \in 0 .. h.size - 2 |->
                                       IF k = 0 THEN h.arr[h.size - 1]
                                       ELSE h.arr[k]],
                           !.size = h.size - 1]
    IN  [min |-> h.arr[0],
         heap |-> IF moved.size > 0 THEN lb_heapifyDown(moved, 0) ELSE moved]

RECURSIVE lb_search(_, _, _)
lb_search(h, serverId, i) ==
    IF i >= h.size THEN -1
    ELSE IF h.arr[i].serverId = serverId THEN i
    ELSE lb_search(h, serverId, i + 1)

lb_updateHeap(h, serverId, newLoad) ==
    LET index == lb_search(h, serverId, 0)
    IN  IF index = -1 THEN h
        ELSE LET set == [h EXCEPT !.arr[index].load = newLoad]
             IN  IF index > 0
                    /\ RLt(set.arr[index].load,
                           set.arr[(index - 1) \div 2].load)
                 THEN lb_heapifyUp(set, index)
                 ELSE lb_heapifyDown(set, index)

RECURSIVE lb_totalLoad(_, _)
lb_totalLoad(srv, n) ==
    IF n = 0 THEN FromInt(0)
    ELSE RAdd(lb_totalLoad(srv, n - 1), srv[n - 1].currentLoad)

lb_calculateAverageLoad(srv, n) == RDiv(lb_totalLoad(srv, n), FromInt(n))

lb_getLoadPercentage(server) ==
    RMul(RDiv(server.currentLoad, server.capacity), FromInt(100))

\* findMostLoadedServer keeping the last of equally loaded servers
RECURSIVE lb_findMostLoadedServer_LastTie(_, _)
lb_findMostLoadedServer_LastTie(srv, n) ==
    IF n = 1 THEN 0
    ELSE LET mostLoaded == lb_findMostLoadedServer_LastTie(srv, n - 1)
         IN  IF RLe(srv[mostLoaded].currentLoad, srv[n - 1].currentLoad)
             THEN n - 1 ELSE mostLoaded

\* the index the loop of findMostLoadedServer holds after servers 0..n-1
RECURSIVE lb_findMostLoadedServer(_, _)
lb_findMostLoadedServer(srv, n) ==
    IF n = 1 THEN 0
    ELSE LET mostLoaded == lb_findMostLoadedServer(srv, n - 1)
         IN  IF RLt(srv[mostLoaded].currentLoad, srv[n - 1].currentLoad)
             THEN n - 1 ELSE mostLoaded

RECURSIVE lb_findLeastLoadedServer(_, _)
lb_findLeastLoadedServer(srv, n) ==
    IF n = 1 THEN 0
    ELSE LET leastLoaded == lb_findLeastLoadedServer(srv, n - 1)
         IN  IF RLt(srv[n - 1].currentLoad, srv[leastLoaded].currentLoad)
             THEN n - 1 ELSE leastLoaded

\* rebalanceLoads: [servers, heap, reb]
lb_rebalanceLoads(srv, n, thr, h) ==
    LET avgLoad == lb_calculateAverageLoad(srv, n)
        mostLoadedIdx == lb_findMostLoadedServer(srv, n)
        leastLoadedIdx == lb_findLeastLoadedServer(srv, n)
        imbalance == RSub(lb_getLoadPercentage(srv[mostLoadedIdx]),
                          lb_getLoadPercentage(srv[leastLoadedIdx]))
        migrationAmount ==
            RMul(RSub(srv[mostLoadedIdx].currentLoad, avgLoad), Rat(1, 2))
        taken == [srv EXCEPT ![mostLoadedIdx].currentLoad =
                                 RSub(@, migrationAmount)]
        given == [taken EXCEPT ![leastLoadedIdx].currentLoad =
                                   RAdd(@, migrationAmount)]
        reb0 == [fired |-> RLt(thr, imbalance),
                 mostLoadedIdx |-> mostLoadedIdx,
                 leastLoadedIdx |-> leastLoadedIdx,
                 imbalance |-> imbalance,
                 migrationAmount |-> migrationAmount]
    IN  IF RLt(thr, imbalance)
        THEN [servers |-> given,
              heap |-> lb_updateHeap(
                           lb_updateHeap(h, mostLoadedIdx,
                                         given[mostLoadedIdx].currentLoad),
                           leastLoadedIdx, given[leastLoadedIdx].currentLoad),
              reb |-> reb0]
        ELSE [servers |-> srv, heap |-> h, reb |-> reb0]

\* main: the heap seeded with servers 0..n-1 at load 0
RECURSIVE lb_seededHeap(_)
lb_seededHeap(n) ==
    IF n = 0 THEN [arr |-> <<>>, size |-> 0, capacity |-> NUM_SERVERS]
    ELSE lb_insertHeap(lb_seededHeap(n - 1), n - 1, FromInt(0))

\* one iteration of the for loop of simulateTaskAssignment, for the task
\* number and the load drawn: the run [servers, heap, log, calls] after it
lb_iteration(run, task, drawn) ==
    LET ex == lb_extractMin(run.heap)
        id == ex.min.serverId
        newLoad == RAdd(run.servers[id].currentLoad, drawn)
        assigned == [run.servers EXCEPT ![id].currentLoad = newLoad]
        inserted == lb_insertHeap(ex.heap, id, newLoad)
        line == [server |-> id, load |-> drawn]
        r == lb_rebalanceLoads(assigned, NUM_SERVERS,
                               FromInt(REBALANCE_THRESHOLD), inserted)
    IN  IF task % REBALANCE_INTERVAL = 0
        THEN [servers |-> r.servers, heap |-> r.heap,
              log |-> Append(run.log, line),
              calls |-> Append(run.calls, [task |-> task, reb |-> r.reb])]
        ELSE [servers |-> assigned, heap |-> inserted,
              log |-> Append(run.log, line), calls |-> run.calls]

\* simulateTaskAssignment(servers, graph, heap, numTasks) with the loads
\* drawn for tasks 1..numTasks: the run after the loop
RECURSIVE simulateTaskAssignment(_, _, _, _)
simulateTaskAssignment(srv, h, n, loads) ==
    IF n = 0 THEN [servers |-> srv, heap |-> h, log |-> <<>>, calls |-> <<>>]
    ELSE lb_iteration(simulateTaskAssignment(srv, h, n - 1, loads),
                      n, loads[n])

(***************************************************************************)
(* load_balancer.c: the graph, and the topology main generates.            *)
(***************************************************************************)
lb_createGraph(n) == [numServers |-> n, adjList |-> [k \in 0 .. n - 1 |-> <<>>]]

\* addEdge: the new node becomes the head of the list of src
lb_addEdge(g, src, dest) == [g EXCEPT !.adjList[src] = <<dest>> \o @]

\* the values of rand() % NUM_SERVERS drawn for the edges of server i: the
\* server itself and its successor
AutoDestChoices(i) == {i, (i + 1) % NUM_SERVERS}

InitAutoGraph ==
    /\ driver = "autoGraph" /\ pc = "randomGen" /\ op = "createGraph"
    /\ graph = lb_createGraph(NUM_SERVERS)
    /\ gi = 0 /\ gj = 0 /\ gn = 0
    /\ edgeSrc = -1 /\ edgeDest = -1 /\ addRet = -1 /\ edgeLog = <<>>
    /\ NoHeapVars /\ NoConfig /\ NoSim /\ NoInput

\* int neighbors = 1 + (rand() % 3);
AutoNeighbors ==
    /\ driver = "autoGraph" /\ pc = "randomGen"
    /\ gi < NUM_SERVERS /\ gn = 0
    /\ gn' \in 1 .. 3
    /\ gj' = 0
    /\ op' = "neighbors"
    /\ UNCHANGED <<heapCall, inputVars, driver, pc, heapVars, configVars,
                   simVars, graph, gi, edgeSrc, edgeDest, addRet, edgeLog>>

\* int dest = rand() % NUM_SERVERS; if (dest != i) addEdge(graph, i, dest);
AutoPick(dest) ==
    /\ driver = "autoGraph" /\ pc = "randomGen"
    /\ gi < NUM_SERVERS /\ gn > 0 /\ gj < gn
    /\ edgeSrc' = gi /\ edgeDest' = dest
    /\ IF dest # gi
       THEN /\ graph' = lb_addEdge(graph, gi, dest)
            /\ edgeLog' = Append(edgeLog, <<gi, dest>>)
            /\ op' = "addEdge"
       ELSE /\ UNCHANGED <<graph, edgeLog>>
            /\ op' = "skipEdge"
    /\ IF gj + 1 < gn
       THEN gj' = gj + 1 /\ UNCHANGED <<gi, gn>>
       ELSE gj' = 0 /\ gn' = 0 /\ gi' = gi + 1
    /\ UNCHANGED <<heapCall, inputVars, driver, pc, heapVars, configVars,
                   simVars, addRet>>

\* the outer loop ends: printGraph(networkGraph)
AutoTopologyDone ==
    /\ driver = "autoGraph" /\ pc = "randomGen"
    /\ gi >= NUM_SERVERS
    /\ pc' = "topologyDone"
    /\ op' = "printGraph"
    /\ UNCHANGED <<heapCall, inputVars, driver, heapVars, configVars, simVars,
                   graph, gi, gj, gn, edgeSrc, edgeDest, addRet, edgeLog>>

NextAutoGraph ==
    \/ AutoNeighbors
    \/ \E dest \in AutoDestChoices(gi) : AutoPick(dest)
    \/ AutoTopologyDone

SpecAutoGraph == InitAutoGraph /\ [][NextAutoGraph]_vars

\* C25: after the random topology generation of the automated driver every
\* server has between 1 and 3 outgoing edges, none of them a self-edge
C25_EveryServerConnected ==
    (driver = "autoGraph" /\ pc = "topologyDone") =>
        \A i \in 0 .. NUM_SERVERS - 1 :
            /\ Len(graph.adjList[i]) \in 1 .. 3
            /\ \A k \in 1 .. Len(graph.adjList[i]) : graph.adjList[i][k] # i

\* what the generation does give: at most 3 outgoing edges per server, none
\* of them a self-edge
C25_AtMostThreeNoSelfEdge ==
    driver = "autoGraph" =>
        \A i \in 0 .. NUM_SERVERS - 1 :
            /\ Len(graph.adjList[i]) \in 0 .. 3
            /\ \A k \in 1 .. Len(graph.adjList[i]) : graph.adjList[i][k] # i

(***************************************************************************)
(* findMostLoadedServer and findLeastLoadedServer on their own: called on  *)
(* any registry of 1..MaxFindServers servers.                              *)
(***************************************************************************)
InitFind ==
    /\ driver = "find" /\ pc = "find" /\ op = "none"
    /\ numServers \in 1 .. MaxFindServers
    /\ servers \in [0 .. numServers - 1 ->
                       {[capacity |-> FromInt(100), currentLoad |-> FromInt(l)] :
                           l \in FindLoads}]
    /\ taskLoads = <<>> /\ numTasks = 0
    /\ threshold = FromInt(0) /\ interval = 0
    /\ tasksAssigned = 0 /\ taskLoad = FromInt(0)
    /\ inAll = FALSE /\ seedI = 0 /\ reb = NoReb /\ log = <<>>
    /\ migrations = 0 /\ manualCount = 0 /\ calls = <<>> /\ verdict = "none"
    /\ NoHeapVars /\ NoGraphVars /\ NoInput

\* int mostLoadedIdx = findMostLoadedServer(servers, numServers);
FindMost ==
    /\ driver = "find"
    /\ reb' = [NoReb EXCEPT
                 !.mostLoadedIdx = findMostLoadedServer(servers, numServers)]
    /\ op' = "findMostLoadedServer"
    /\ UNCHANGED <<heapCall, inputVars, driver, pc, heapVars, configVars, servers,
                   tasksAssigned, taskLoad, inAll, seedI, log, migrations,
                   manualCount, calls, verdict, graphVars>>

\* int leastLoadedIdx = findLeastLoadedServer(servers, numServers);
FindLeast ==
    /\ driver = "find"
    /\ reb' = [NoReb EXCEPT
                 !.leastLoadedIdx = findLeastLoadedServer(servers, numServers)]
    /\ op' = "findLeastLoadedServer"
    /\ UNCHANGED <<heapCall, inputVars, driver, pc, heapVars, configVars, servers,
                   tasksAssigned, taskLoad, inAll, seedI, log, migrations,
                   manualCount, calls, verdict, graphVars>>

NextFind == FindMost \/ FindLeast

SpecFind == InitFind /\ [][NextFind]_vars

\* the lowest index among the servers a predicate picks
LowestIndex(S) == CHOOSE i \in S : \A j \in S : i <= j

\* C23: for every load vector of N >= 1 servers, findMostLoadedServer
\* returns the lowest index among the servers whose currentLoad is the
\* maximum, and findLeastLoadedServer the lowest index among those whose
\* currentLoad is the minimum; so do the two functions of load_balancer.c
C23_TieBreakLowestIndex ==
    LET ids == 0 .. numServers - 1
        maxima == {m \in ids : \A k \in ids :
                      RLe(servers[k].currentLoad, servers[m].currentLoad)}
        minima == {m \in ids : \A k \in ids :
                      RLe(servers[m].currentLoad, servers[k].currentLoad)}
    IN  /\ op = "findMostLoadedServer" =>
              /\ reb.mostLoadedIdx = LowestIndex(maxima)
              /\ lb_findMostLoadedServer(servers, numServers)
                    = LowestIndex(maxima)
        /\ op = "findLeastLoadedServer" =>
              /\ reb.leastLoadedIdx = LowestIndex(minima)
              /\ lb_findLeastLoadedServer(servers, numServers)
                    = LowestIndex(minima)

\* the minimum is held by two servers, neither of them server 0
C23_Witness ==
    /\ op = "findLeastLoadedServer" /\ numServers >= 3
    /\ reb.leastLoadedIdx > 0
    /\ \E k \in reb.leastLoadedIdx + 1 .. numServers - 1 :
          servers[k].currentLoad = servers[reb.leastLoadedIdx].currentLoad

\* the maximum is held by two servers, neither of them server 0
C23_WitnessMost ==
    /\ op = "findMostLoadedServer" /\ numServers >= 3
    /\ reb.mostLoadedIdx > 0
    /\ \E k \in reb.mostLoadedIdx + 1 .. numServers - 1 :
          servers[k].currentLoad = servers[reb.mostLoadedIdx].currentLoad

(***************************************************************************)
(* UTILITY & INPUT VALIDATION FUNCTIONS                                    *)
(* Standard input is a sequence of characters; every typed line ends with  *)
(* a newline.                                                              *)
(***************************************************************************)
DigitChars == <<"0", "1", "2", "3", "4", "5", "6", "7", "8", "9">>
IsDigit(c) == \E k \in 1 .. 10 : DigitChars[k] = c
DigitVal(c) == (CHOOSE k \in 1 .. 10 : DigitChars[k] = c) - 1
IsSpace(c) == c \in {" ", "\t", "\n"}

\* while ((c = getchar()) != '\n' && c != EOF);
RECURSIVE clearBuffer(_)
clearBuffer(buf) ==
    IF buf = <<>> THEN buf
    ELSE IF Head(buf) = "\n" THEN Tail(buf)
    ELSE clearBuffer(Tail(buf))

\* the white space scanf skips before a conversion, line ends included
RECURSIVE skipSpace(_)
skipSpace(buf) ==
    IF buf # <<>> /\ IsSpace(Head(buf)) THEN skipSpace(Tail(buf)) ELSE buf

\* the longest prefix of digits
RECURSIVE takeDigits(_)
takeDigits(buf) ==
    IF buf # <<>> /\ IsDigit(Head(buf))
    THEN <<Head(buf)>> \o takeDigits(Tail(buf))
    ELSE <<>>

RECURSIVE stripZeros(_)
stripZeros(ds) ==
    IF ds # <<>> /\ Head(ds) = "0" THEN stripZeros(Tail(ds)) ELSE ds

RECURSIVE decValue(_)
decValue(ds) ==
    IF ds = <<>> THEN 0
    ELSE 10 * decValue(SubSeq(ds, 1, Len(ds) - 1)) + DigitVal(ds[Len(ds)])

\* the digits do not fit an int (32 bits)
overflows(neg, ds) ==
    LET sig == stripZeros(ds)
    IN  \/ Len(sig) > 10
        \/ /\ Len(sig) = 10
           /\ LET hi == decValue(SubSeq(sig, 1, 9))
                  lo == DigitVal(sig[10])
              IN  \/ hi > 214748364
                  \/ hi = 214748364 /\ lo > (IF neg THEN 8 ELSE 7)

\* the int the digits stand for, when they fit
intValue(neg, ds) ==
    LET sig == stripZeros(ds)
        hi == decValue(SubSeq(sig, 1, Len(sig) - 1))
        lo == IF sig = <<>> THEN 0 ELSE DigitVal(sig[Len(sig)])
    IN  IF neg THEN (0 - 10 * hi) - lo ELSE 10 * hi + lo

\* what an int may hold after scanf converted digits that do not fit: the
\* conversion is undefined; 32-bit truncation of the long (5 for
\* 4294967301, -1 for LONG_MAX) and clamping to INT_MAX are outcomes seen
OverflowValues == {-1, 5, 2147483647}

\* scanf("%d", &value): [ret, buf, value]; ret is 1, 0 (no integer) or -1
\* (EOF); ov is the outcome of a conversion that does not fit
scanfInt(buf, old, ov) ==
    LET b1 == skipSpace(buf)
        signed == b1 # <<>> /\ Head(b1) \in {"-", "+"}
        neg == b1 # <<>> /\ Head(b1) = "-"
        b2 == IF signed THEN Tail(b1) ELSE b1
        ds == takeDigits(b2)
        b3 == SubSeq(b2, Len(ds) + 1, Len(b2))
    IN  IF b1 = <<>> THEN [ret |-> -1, buf |-> b1, value |-> old]
        ELSE IF ds = <<>> THEN [ret |-> 0, buf |-> b2, value |-> old]
        ELSE [ret |-> 1, buf |-> b3,
              value |-> IF overflows(neg, ds) THEN ov
                        ELSE intValue(neg, ds)]

\* one iteration of the while loop of getIntInput: [valid, buf, value, error]
getIntInputStep(buf, old, lo, hi, ov) ==
    LET r == scanfInt(buf, old, ov)
    IN  IF r.ret # 1
        THEN [valid |-> 0, buf |-> clearBuffer(r.buf), value |-> r.value,
              error |-> "invalid"]
        ELSE IF r.value < lo \/ r.value > hi
        THEN [valid |-> 0, buf |-> clearBuffer(r.buf), value |-> r.value,
              error |-> "range"]
        ELSE [valid |-> 1, buf |-> clearBuffer(r.buf), value |-> r.value,
              error |-> "none"]

(***************************************************************************)
(* getIntInput on its own, reading the lines an operator typed.            *)
(***************************************************************************)
\* the characters of the lines, each line followed by its newline
RECURSIVE Flatten(_)
Flatten(ls) ==
    IF ls = <<>> THEN <<>> ELSE Head(ls) \o <<"\n">> \o Flatten(Tail(ls))

\* the lines an operator may type: empty and blank lines, integers in and
\* out of the ranges, text, an integer followed by text, signs, leading
\* blanks, a fraction, and two integers that do not fit an int
InputLines ==
    {<<>>, <<" ">>, <<"5">>, <<"2", "5">>, <<"a", "b", "c">>, <<"5", "a">>,
     <<"-", "5">>, <<"-">>, <<" ", "2">>, <<"1", "2", ".", "5">>,
     <<"4", "2", "9", "4", "9", "6", "7", "3", "0", "1">>,
     <<"9", "9", "9", "9", "9", "9", "9", "9", "9", "9", "9">>}

RECURSIVE StreamsUpTo(_)
StreamsUpTo(n) ==
    IF n = 0 THEN {<<>>}
    ELSE LET shorter == StreamsUpTo(n - 1)
         IN  shorter \cup {Append(st, l) : st \in shorter, l \in InputLines}

\* the ranges asked for: the server count (1-20) and the menu choice (1-5)
InputRanges == {<<1, 20>>, <<1, 5>>}

InitInput ==
    /\ driver = "input" /\ pc = "prompt" /\ op = "getIntInput"
    /\ typed \in StreamsUpTo(MaxLines)
    /\ inbuf = Flatten(typed)
    /\ \E r \in InputRanges : minVal = r[1] /\ maxVal = r[2]
    /\ value = 0 /\ prompts = 0 /\ errors = 0
    /\ NoHeapVars /\ NoConfig /\ NoSim /\ NoGraphVars

\* one iteration of while (!valid): the prompt, scanf, clearBuffer, the
\* range test; at end of input scanf fails again and again
IntAttempt(ov) ==
    /\ driver = "input" /\ pc = "prompt"
    /\ prompts < MaxPrompts
    /\ LET r == getIntInputStep(inbuf, value, minVal, maxVal, ov)
       IN  /\ inbuf' = r.buf
           /\ value' = r.value
           /\ errors' = IF r.valid = 1 THEN errors ELSE errors + 1
           /\ pc' = IF r.valid = 1 THEN "returned" ELSE "prompt"
           /\ op' = IF r.valid = 1 THEN "accepted" ELSE r.error
    /\ prompts' = prompts + 1
    /\ UNCHANGED <<driver, heapVars, heapCall, configVars, simVars, graphVars, typed,
                   minVal, maxVal>>

NextInput == \E ov \in OverflowValues : IntAttempt(ov)

SpecInput == InitInput /\ [][NextInput]_vars

(***************************************************************************)
(* Properties of getIntInput.                                              *)
(***************************************************************************)
\* the integer a typed line starts with, after blanks: [has, fits, int]
LineInt(line) ==
    LET b == skipSpace(line)
        signed == b # <<>> /\ Head(b) \in {"-", "+"}
        neg == b # <<>> /\ Head(b) = "-"
        ds == takeDigits(IF signed THEN Tail(b) ELSE b)
        fits == ~overflows(neg, ds)
    IN  [has |-> ds # <<>>, fits |-> fits,
         int |-> IF ds # <<>> /\ fits THEN intValue(neg, ds) ELSE 0]

\* the line parses as an integer with a value in [minVal, maxVal]
InRangeLine(line) ==
    /\ LineInt(line).has /\ LineInt(line).fits
    /\ minVal <= LineInt(line).int /\ LineInt(line).int <= maxVal

\* C11: getIntInput(min, max) returns the value of the first typed line that
\* parses as an integer and is in the inclusive range [min, max], and the
\* returned value always satisfies min <= value <= max (range [1,20], lines
\* "abc", "25", "5": two re-prompts and the result 5).
C11_BoundedIntegerPrompt ==
    pc = "returned" =>
        /\ minVal <= value /\ value <= maxVal
        /\ \E k \in 1 .. Len(typed) :
              /\ InRangeLine(typed[k])
              /\ \A j \in 1 .. k - 1 : ~InRangeLine(typed[j])
              /\ value = LineInt(typed[k]).int
        /\ (typed = << <<"a", "b", "c">>, <<"2", "5">>, <<"5">> >>
            /\ minVal = 1 /\ maxVal = 20) => errors = 2 /\ value = 5

(***************************************************************************)
(* The two drivers.  Both seed the heap with every server at load 0 and    *)
(* then assign tasks: extractMin, add the load, insertHeap, and a          *)
(* rebalanceLoads call after every interval-th task.                       *)
(***************************************************************************)
NewServer(c) == [capacity |-> FromInt(c), currentLoad |-> FromInt(0)]

\* interactive: the state when runInteractiveSimulation has created its heap
InitInteractive ==
    /\ driver = "interactive" /\ pc = "seed" /\ op = "createMinHeap"
    /\ numServers \in 1 .. MaxServers
    /\ servers \in [0 .. numServers - 1 ->
                       {NewServer(c) : c \in CapacityChoices}]
    /\ numTasks \in 1 .. MaxTasks
    /\ taskLoads \in [0 .. numTasks - 1 ->
                         {FromInt(l) : l \in TaskLoadChoices}]
    /\ threshold \in {FromInt(t) : t \in ThresholdChoices}
    /\ interval \in IntervalChoices
    /\ heap = createMinHeap(numServers)
    /\ minServer = NoNode
    /\ tasksAssigned = 0 /\ taskLoad = FromInt(0) /\ inAll = FALSE
    /\ seedI = 0 /\ reb = NoReb /\ log = <<>> /\ migrations = 0
    /\ manualCount = 0 /\ calls = <<>> /\ verdict = "none"
    /\ graph = createGraph(numServers)
    /\ gi = 0 /\ gj = 0 /\ gn = 0
    /\ edgeSrc = -1 /\ edgeDest = -1 /\ addRet = -1 /\ edgeLog = <<>>
    /\ heapCall = NoNode
    /\ NoInput

\* automated: the state when main has created its heap
InitAuto ==
    /\ driver = "auto" /\ pc = "seed" /\ op = "createMinHeap"
    /\ numServers = NUM_SERVERS
    /\ servers \in [0 .. numServers - 1 ->
                       {NewServer(c) : c \in AutoCapacityChoices}]
    /\ numTasks = NUM_TASKS
    /\ taskLoads = <<>>
    /\ threshold = FromInt(REBALANCE_THRESHOLD)
    /\ interval = REBALANCE_INTERVAL
    /\ heap = createMinHeap(numServers)
    /\ minServer = NoNode
    /\ tasksAssigned = 0 /\ taskLoad = FromInt(0) /\ inAll = TRUE
    /\ seedI = 0 /\ reb = NoReb /\ log = <<>> /\ migrations = 0
    /\ manualCount = 0 /\ calls = <<>> /\ verdict = "none"
    /\ graph = createGraph(numServers)
    /\ gi = 0 /\ gj = 0 /\ gn = 0
    /\ edgeSrc = -1 /\ edgeDest = -1 /\ addRet = -1 /\ edgeLog = <<>>
    /\ heapCall = NoNode
    /\ NoInput

\* interactive, when the operator has entered the server count, the threshold
\* and the interval that load_balancer.c defines
InitParity ==
    /\ driver = "interactive" /\ pc = "seed" /\ op = "createMinHeap"
    /\ numServers = NUM_SERVERS
    /\ \E caps \in ParityCapacities :
           servers = [i \in 0 .. numServers - 1 |-> NewServer(caps[i + 1])]
    /\ numTasks \in 1 .. ParityTasks
    /\ taskLoads \in [0 .. numTasks - 1 ->
                         {FromInt(l) : l \in ParityTaskLoadChoices}]
    /\ threshold = FromInt(REBALANCE_THRESHOLD)
    /\ interval = REBALANCE_INTERVAL
    /\ heap = createMinHeap(numServers)
    /\ minServer = NoNode
    /\ tasksAssigned = 0 /\ taskLoad = FromInt(0) /\ inAll = FALSE
    /\ seedI = 0 /\ reb = NoReb /\ log = <<>> /\ migrations = 0
    /\ manualCount = 0 /\ calls = <<>> /\ verdict = "none"
    /\ graph = createGraph(numServers)
    /\ gi = 0 /\ gj = 0 /\ gn = 0
    /\ edgeSrc = -1 /\ edgeDest = -1 /\ addRet = -1 /\ edgeLog = <<>>
    /\ heapCall = NoNode
    /\ NoInput

\* for (i = 0; i < numServers; i++) insertHeap(heap, i, 0.0);
SeedInsert ==
    /\ pc = "seed" /\ seedI < numServers
    /\ heap' = insertHeap(heap, seedI, FromInt(0))
    /\ seedI' = seedI + 1
    /\ op' = "seedInsert"
    /\ UNCHANGED <<heapCall, inputVars, driver, pc, minServer, configVars, servers, tasksAssigned,
                   taskLoad, inAll, reb, log, migrations, manualCount, calls,
                   verdict, graphVars>>

SeedDone ==
    /\ pc = "seed" /\ seedI >= numServers
    /\ pc' = IF driver = "auto" THEN "allLoop" ELSE "loop"
    /\ op' = "seeded"
    /\ UNCHANGED <<heapCall, inputVars, driver, heapVars, configVars, simVars, graphVars>>

\* the load read at the cursor of one task back
NextTaskLoads_StaleCursor ==
    IF driver = "auto"
    THEN {FromInt(l) : l \in IF tasksAssigned < MaxAutoDraws
                              THEN AutoTaskLoadChoices
                              ELSE AutoTaskLoadLater}
    ELSE {taskLoads[IF tasksAssigned > 0 THEN tasksAssigned - 1 ELSE 0]}

\* the task load of the next assignment: read from the list, or drawn
NextTaskLoads ==
    IF driver = "auto"
    THEN {FromInt(l) : l \in IF tasksAssigned < MaxAutoDraws
                              THEN AutoTaskLoadChoices
                              ELSE AutoTaskLoadLater}
    ELSE {taskLoads[tasksAssigned]}

\* float taskLoad = ...; HeapNode minServer = extractMin(heap);
Extract ==
    /\ taskLoad' \in NextTaskLoads
    /\ minServer' = extractMin(heap).min
    /\ heap' = extractMin(heap).heap
    /\ pc' = "extracted"
    /\ op' = "extractMin"
    /\ reb' = NoReb
    /\ UNCHANGED <<heapCall, inputVars, driver, configVars, servers, tasksAssigned, seedI, log,
                   migrations, manualCount, calls, verdict, graphVars>>

\* menu choice 1: assign next task
MenuAssignNext ==
    /\ driver = "interactive" /\ pc = "loop" /\ tasksAssigned < numTasks
    /\ inAll' = FALSE
    /\ Extract

\* menu choice 2: assign all remaining tasks
MenuAssignAll ==
    /\ driver = "interactive" /\ pc = "loop" /\ tasksAssigned < numTasks
    /\ pc' = "allLoop"
    /\ inAll' = TRUE
    /\ op' = "assignAll"
    /\ reb' = NoReb
    /\ UNCHANGED <<heapCall, inputVars, driver, heapVars, configVars, servers, tasksAssigned,
                   taskLoad, seedI, log, migrations, manualCount, calls, verdict,
                   graphVars>>

\* the loop condition with < in place of <=
LoopCond_OneTaskShort == tasksAssigned + 1 < numTasks

\* the condition of the task loop: task <= numTasks for the next task
\* (automated), tasksAssigned < numTasks (choice 2)
LoopCond == tasksAssigned < numTasks

\* one more iteration of the task loop (choice 2, or the automated for loop)
LoopExtract ==
    /\ pc = "allLoop" /\ LoopCond
    /\ UNCHANGED inAll
    /\ Extract

\* the task loop ends
LoopExit ==
    /\ pc = "allLoop" /\ ~LoopCond
    /\ pc' = "loop"
    /\ inAll' = FALSE
    /\ op' = "loopExit"
    /\ reb' = NoReb
    /\ UNCHANGED <<heapCall, inputVars, driver, heapVars, configVars, servers, tasksAssigned,
                   taskLoad, seedI, log, migrations, manualCount, calls, verdict,
                   graphVars>>

\* the assignment with = in place of +=
AssignTask_Overwrite ==
    /\ pc = "extracted"
    /\ servers' = [servers EXCEPT
                     ![minServer.serverId].currentLoad = taskLoad]
    /\ heap' = insertHeap(heap, minServer.serverId, taskLoad)
    /\ tasksAssigned' = tasksAssigned + 1
    /\ log' = Append(log, [server |-> minServer.serverId, load |-> taskLoad])
    /\ pc' = "assigned"
    /\ op' = "insertHeap"
    /\ UNCHANGED <<heapCall, inputVars, driver, minServer, configVars, taskLoad, inAll, seedI, reb,
                   migrations, manualCount, calls, verdict, graphVars>>

\* the assignment reinserting the server with the load it was extracted with
AssignTask_StaleHeapLoad ==
    /\ pc = "extracted"
    /\ servers' = [servers EXCEPT
                     ![minServer.serverId].currentLoad = RAdd(@, taskLoad)]
    /\ heap' = insertHeap(heap, minServer.serverId, minServer.load)
    /\ tasksAssigned' = tasksAssigned + 1
    /\ log' = Append(log, [server |-> minServer.serverId, load |-> taskLoad])
    /\ pc' = "assigned"
    /\ op' = "insertHeap"
    /\ UNCHANGED <<heapCall, inputVars, driver, minServer, configVars, taskLoad, inAll, seedI, reb,
                   migrations, manualCount, calls, verdict, graphVars>>

\* servers[minServer.serverId].currentLoad += taskLoad;
\* insertHeap(heap, minServer.serverId, newLoad); tasksAssigned++;
AssignTask ==
    /\ pc = "extracted"
    /\ LET newLoad == RAdd(servers[minServer.serverId].currentLoad, taskLoad)
       IN  /\ servers' = [servers EXCEPT
                            ![minServer.serverId].currentLoad = newLoad]
           /\ heap' = insertHeap(heap, minServer.serverId, newLoad)
    /\ tasksAssigned' = tasksAssigned + 1
    /\ log' = Append(log, [server |-> minServer.serverId, load |-> taskLoad])
    /\ pc' = "assigned"
    /\ op' = "insertHeap"
    /\ UNCHANGED <<heapCall, inputVars, driver, minServer, configVars, taskLoad, inAll, seedI, reb,
                   migrations, manualCount, calls, verdict, graphVars>>

\* a rebalanceLoads call
CallRebalance ==
    LET r == rebalanceLoads(servers, numServers, threshold, heap)
    IN  /\ servers' = r.servers
        /\ heap' = r.heap
        /\ reb' = r.reb
        /\ migrations' = IF r.reb.fired THEN migrations + 1 ELSE migrations

\* the periodic call made one task early
PeriodicRebalance_OneTaskEarly ==
    /\ pc = "assigned"
    /\ IF (tasksAssigned + 1) % interval = 0
       THEN /\ CallRebalance
            /\ calls' = Append(calls, [task |-> tasksAssigned, reb |-> reb'])
            /\ op' = "rebalanceLoads"
       ELSE /\ op' = "noRebalance"
            /\ UNCHANGED <<servers, heap, reb, migrations, calls>>
    /\ pc' = IF inAll THEN "allLoop" ELSE "loop"
    /\ UNCHANGED <<heapCall, inputVars, driver, minServer, configVars, tasksAssigned,
                   taskLoad, inAll, seedI, log, manualCount, verdict,
                   graphVars>>

\* the periodic call made by the assign-all loop only
PeriodicRebalance_OnlyInBatch ==
    /\ pc = "assigned"
    /\ IF inAll /\ tasksAssigned % interval = 0
       THEN /\ CallRebalance
            /\ calls' = Append(calls, [task |-> tasksAssigned, reb |-> reb'])
            /\ op' = "rebalanceLoads"
       ELSE /\ op' = "noRebalance"
            /\ UNCHANGED <<servers, heap, reb, migrations, calls>>
    /\ pc' = IF inAll THEN "allLoop" ELSE "loop"
    /\ UNCHANGED <<heapCall, inputVars, driver, minServer, configVars,
                   tasksAssigned, taskLoad, inAll, seedI, log, manualCount,
                   verdict, graphVars>>

\* if (tasksAssigned % interval == 0) rebalanceLoads(...);
PeriodicRebalance ==
    /\ pc = "assigned"
    /\ IF tasksAssigned % interval = 0
       THEN /\ CallRebalance
            /\ calls' = Append(calls, [task |-> tasksAssigned, reb |-> reb'])
            /\ op' = "rebalanceLoads"
       ELSE /\ op' = "noRebalance"
            /\ UNCHANGED <<servers, heap, reb, migrations, calls>>
    /\ pc' = IF inAll THEN "allLoop" ELSE "loop"
    /\ UNCHANGED <<heapCall, inputVars, driver, minServer, configVars, tasksAssigned, taskLoad,
                   inAll, seedI, log, manualCount, verdict, graphVars>>

\* menu choice 3 counted as a task by the loop
MenuManualRebalance_CountsAsTask ==
    /\ driver = "interactive" /\ pc = "loop" /\ tasksAssigned < numTasks
    /\ manualCount < MaxManual
    /\ CallRebalance
    /\ manualCount' = manualCount + 1
    /\ tasksAssigned' = tasksAssigned + 1
    /\ op' = "manualRebalance"
    /\ UNCHANGED <<heapCall, inputVars, driver, pc, minServer, configVars,
                   taskLoad, inAll, seedI, log, calls, verdict, graphVars>>

\* menu choice 3: trigger manual rebalance
MenuManualRebalance ==
    /\ driver = "interactive" /\ pc = "loop" /\ tasksAssigned < numTasks
    /\ manualCount < MaxManual
    /\ CallRebalance
    /\ manualCount' = manualCount + 1
    /\ op' = "manualRebalance"
    /\ UNCHANGED <<heapCall, inputVars, driver, pc, minServer, configVars, tasksAssigned, taskLoad,
                   inAll, seedI, log, calls, verdict, graphVars>>

\* menu choice 4: show server status
MenuShowStatus ==
    /\ driver = "interactive" /\ pc = "loop" /\ tasksAssigned < numTasks
    /\ op' = "printServerStates"
    /\ reb' = NoReb
    /\ UNCHANGED <<heapCall, inputVars, driver, pc, heapVars, configVars, servers, tasksAssigned,
                   taskLoad, inAll, seedI, log, migrations, manualCount, calls,
                   verdict, graphVars>>

\* choice 5 that leaves the task counter as it is
MenuExit_KeepsCounter ==
    /\ driver = "interactive" /\ pc = "loop" /\ tasksAssigned < numTasks
    /\ op' = "exit"
    /\ reb' = NoReb
    /\ UNCHANGED <<heapCall, inputVars, driver, pc, heapVars, configVars, servers,
                   tasksAssigned, taskLoad, inAll, seedI, log, migrations,
                   manualCount, calls, verdict, graphVars>>

\* menu choice 5: exit simulation
MenuExit ==
    /\ driver = "interactive" /\ pc = "loop" /\ tasksAssigned < numTasks
    /\ tasksAssigned' = numTasks
    /\ op' = "exit"
    /\ reb' = NoReb
    /\ UNCHANGED <<heapCall, inputVars, driver, pc, heapVars, configVars, servers, taskLoad, inAll,
                   seedI, log, migrations, manualCount, calls, verdict, graphVars>>

\* the final verdict with <= in place of <
Finish_AtMostThreshold ==
    /\ pc = "loop"
    /\ driver = "interactive" => tasksAssigned >= numTasks
    /\ LET maxLoad ==
               servers[findMostLoadedServer(servers, numServers)].currentLoad
           minLoad ==
               servers[findLeastLoadedServer(servers, numServers)].currentLoad
           imbalance == RSub(maxLoad, minLoad)
       IN  verdict' = IF RLe(imbalance, threshold) THEN "well-balanced"
                      ELSE "needs-rebalancing"
    /\ pc' = "done"
    /\ op' = "final"
    /\ reb' = NoReb
    /\ UNCHANGED <<heapCall, inputVars, driver, heapVars, configVars, servers,
                   tasksAssigned, taskLoad, inAll, seedI, log, migrations,
                   manualCount, calls, graphVars>>

\* the final statistics and the verdict: after the menu loop (interactive),
\* after simulateTaskAssignment has returned (automated)
Finish ==
    /\ pc = "loop"
    /\ driver = "interactive" => tasksAssigned >= numTasks
    /\ LET maxLoad ==
               servers[findMostLoadedServer(servers, numServers)].currentLoad
           minLoad ==
               servers[findLeastLoadedServer(servers, numServers)].currentLoad
           imbalance == RSub(maxLoad, minLoad)
       IN  verdict' = IF RLt(imbalance, threshold) THEN "well-balanced"
                      ELSE "needs-rebalancing"
    /\ pc' = "done"
    /\ op' = "final"
    /\ reb' = NoReb
    /\ UNCHANGED <<heapCall, inputVars, driver, heapVars, configVars, servers, tasksAssigned,
                   taskLoad, inAll, seedI, log, migrations, manualCount, calls,
                   graphVars>>

Init == InitInteractive \/ InitAuto

Next ==
    \/ SeedInsert
    \/ SeedDone
    \/ MenuAssignNext
    \/ MenuAssignAll
    \/ LoopExtract
    \/ LoopExit
    \/ AssignTask
    \/ PeriodicRebalance
    \/ MenuManualRebalance
    \/ MenuShowStatus
    \/ MenuExit
    \/ Finish

\* both drivers
Spec == Init /\ [][Next]_vars

\* the control state: where the program is and how far its loops have come
ctl == <<pc, tasksAssigned, seedI>>

\* a change of the control state of a program that has not finished: every
\* step of Next but the menu choices 3 and 4 is one
Advance ==
    /\ pc # "done"
    /\ pc' \in {"seed", "loop", "allLoop", "extracted", "assigned", "done"}
    /\ tasksAssigned' \in 0 .. numTasks
    /\ seedI' \in 0 .. numServers

\* both drivers, running on (the program does not halt between two
\* statements), with an operator who does not choose 3 and 4 for ever
SpecFair == Init /\ [][Next]_vars /\ WF_ctl(Advance)

\* the interactive driver given the numbers of the automated one
SpecParity == InitParity /\ [][Next]_vars

(***************************************************************************)
(* Properties of the drivers.                                              *)
(***************************************************************************)
Servers == 0 .. numServers - 1

RECURSIVE SumLoads(_, _)
SumLoads(srv, ids) ==
    IF ids = {} THEN FromInt(0)
    ELSE LET k == CHOOSE x \in ids : TRUE
         IN  RAdd(srv[k].currentLoad, SumLoads(srv, ids \ {k}))

\* the sum of the loads of the tasks the log shows assigned to a server of S
RECURSIVE SumLog(_, _)
SumLog(l, S) ==
    IF l = <<>> THEN FromInt(0)
    ELSE RAdd(IF Head(l).server \in S THEN Head(l).load ELSE FromInt(0),
              SumLog(Tail(l), S))

TasksOf(s) == Cardinality({k \in 1 .. Len(log) : log[k].server = s})

\* a step that called rebalanceLoads
RebalanceStep == op' \in {"rebalanceLoads", "manualRebalance"}

\* a server of maximum (minimum) load
IsMostLoaded(srv, m) ==
    \A k \in DOMAIN srv : RLe(srv[k].currentLoad, srv[m].currentLoad)
IsLeastLoaded(srv, m) ==
    \A k \in DOMAIN srv : RLe(srv[m].currentLoad, srv[k].currentLoad)

\* load percentage: 100 * currentLoad / capacity
Percent(server) ==
    RDiv(RMul(FromInt(100), server.currentLoad), server.capacity)

\* C3: in every reachable state of either driver, the server chosen for the
\* next task has a currentLoad equal to the minimum currentLoad over all
\* servers, as computed by a linear scan at the moment of assignment.
C3_GreedyAssignment ==
    pc = "extracted" =>
        /\ minServer.serverId \in Servers
        /\ IsLeastLoaded(servers, minServer.serverId)
        /\ servers[minServer.serverId].currentLoad =
              servers[findLeastLoadedServer(servers, numServers)].currentLoad

\* a server chosen among three with different loads, after a migration
C3_Witness ==
    /\ pc = "extracted" /\ numServers = 3 /\ migrations > 0
    /\ \E a, b \in Servers :
          RLt(servers[minServer.serverId].currentLoad, servers[a].currentLoad)
          /\ RLt(servers[a].currentLoad, servers[b].currentLoad)

\* C4: for servers starting at zero load, while no rebalance has fired, the
\* sum of all servers' currentLoad equals the sum of the loads of the tasks
\* assigned, and each task's load was added to exactly one server: every
\* server's load is the sum of the loads of the tasks assigned to it.
C4_ConservationNoRebalance ==
    migrations = 0 =>
        /\ SumLoads(servers, Servers) = SumLog(log, Servers)
        /\ \A s \in Servers : servers[s].currentLoad = SumLog(log, {s})
        /\ \A k \in 1 .. Len(log) : log[k].server \in Servers

\* four tasks assigned to two servers, rebalanceLoads called and not fired
C4_Witness ==
    /\ migrations = 0 /\ Len(log) = 4 /\ numServers = 2
    /\ op = "rebalanceLoads"
    /\ TasksOf(0) = 2 /\ TasksOf(1) = 2

\* C5: a rebalanceLoads call that migrates amount M from the most-loaded
\* server A to the least-loaded server B leaves the sum of currentLoad
\* unchanged, with A.load_after = A.load_before - M and B.load_after =
\* B.load_before + M; hence in every reachable state the sum of all server
\* loads equals the sum of the loads of the tasks assigned so far.
C5_ConservationUnderRebalance ==
    /\ [][(RebalanceStep /\ reb'.fired) =>
            LET A == reb'.mostLoadedIdx
                B == reb'.leastLoadedIdx
                M == reb'.migrationAmount
            IN  /\ A # B
                /\ IsMostLoaded(servers, A) /\ IsLeastLoaded(servers, B)
                /\ SumLoads(servers', Servers) = SumLoads(servers, Servers)
                /\ servers'[A].currentLoad = RSub(servers[A].currentLoad, M)
                /\ servers'[B].currentLoad = RAdd(servers[B].currentLoad, M)
         ]_vars
    /\ [](SumLoads(servers, Servers) = SumLog(log, Servers))

\* a migration has just happened among three servers
C5_Witness ==
    /\ op \in {"rebalanceLoads", "manualRebalance"} /\ reb.fired
    /\ numServers = 3 /\ migrations = 2
    /\ RLt(FromInt(0), reb.migrationAmount)

\* rebalanceLoads on two servers of capacity 100 at the given loads
Example(load0, load1, thr) ==
    LET srv == [k \in 0 .. 1 |->
                   [capacity |-> FromInt(100),
                    currentLoad |-> FromInt(IF k = 0 THEN load0 ELSE load1)]]
        h == insertHeap(insertHeap(createMinHeap(2), 0, FromInt(load0)),
                        1, FromInt(load1))
        r == rebalanceLoads(srv, 2, FromInt(thr), h)
    IN  [fired |-> r.reb.fired,
         unchanged |-> r.servers = srv /\ r.heap = h]

\* C6: rebalanceLoads migrates load if and only if the load percentage of
\* the most-loaded server minus that of the least-loaded server is strictly
\* greater than the threshold: 90% and 60% with threshold 20 fire, 70% and
\* 60% do not, an imbalance equal to the threshold does not; and when it
\* does not fire every server's currentLoad and every heap entry is
\* unchanged.
C6_TriggerCondition ==
    /\ [][RebalanceStep =>
            LET A == reb'.mostLoadedIdx
                B == reb'.leastLoadedIdx
                over == RLt(threshold,
                            RSub(Percent(servers[A]), Percent(servers[B])))
            IN  /\ IsMostLoaded(servers, A) /\ IsLeastLoaded(servers, B)
                /\ reb'.fired <=> over
                /\ over => servers' # servers
                /\ ~over => servers' = servers /\ heap' = heap
         ]_vars
    /\ [](/\ Example(90, 60, 20).fired
          /\ ~Example(60, 90, 20).unchanged
          /\ ~Example(70, 60, 20).fired /\ Example(70, 60, 20).unchanged
          /\ ~Example(80, 60, 20).fired /\ Example(80, 60, 20).unchanged)

\* a rebalanceLoads call with the imbalance equal to the threshold, not fired
C6_Witness ==
    /\ op \in {"rebalanceLoads", "manualRebalance"}
    /\ ~reb.fired
    /\ reb.imbalance = threshold
    /\ reb.mostLoadedIdx # reb.leastLoadedIdx

\* the ids of the entries of the heap, with multiplicity
IdBag(h) ==
    [s \in {h.arr[k].serverId : k \in 0 .. h.size - 1} |->
        Cardinality({k \in 0 .. h.size - 1 : h.arr[k].serverId = s})]

\* C7: while the simulation is running, after heap seeding and after every
\* completed task assignment and every rebalance, the heap contains exactly
\* one entry per server identifier 0..N-1; an entry is absent only between
\* the extractMin and the immediately following insertHeap of one
\* assignment, and then it is the entry of the server extracted.
C7_OneEntryPerServer ==
    /\ pc \in {"loop", "allLoop", "assigned", "done"} =>
          /\ heap.size = numServers
          /\ IdBag(heap) = SetToBag(Servers)
    /\ pc = "extracted" =>
          /\ heap.size = numServers - 1
          /\ IdBag(heap) = SetToBag(Servers \ {minServer.serverId})

\* between extractMin and insertHeap, after a migration
C7_Witness ==
    /\ pc = "extracted" /\ numServers = 3 /\ migrations > 0
    /\ heap.size = 2 /\ tasksAssigned >= 2

\* the destinations of the edges from src
Dests(g, src) == {g.adjList[src][k] : k \in 1 .. Len(g.adjList[src])}

NoBadEdges(g) ==
    \A src \in 0 .. g.numServers - 1 :
        LET l == g.adjList[src]
        IN  /\ \A k \in 1 .. Len(l) :
                  l[k] \in 0 .. g.numServers - 1 /\ l[k] # src
            /\ \A j, k \in 1 .. Len(l) : j # k => l[j] # l[k]

\* C8: interactive addEdge(src, dest) is rejected (returns 0 and leaves
\* every adjacency list unchanged) when src or dest is outside [0, N), when
\* src = dest, or when the edge src->dest already exists; otherwise exactly
\* that one edge is added.  Consequently the interactive graph never
\* contains a self-edge, two equal edges from the same source, or an
\* endpoint outside [0, N).
C8_EdgeValidation ==
    /\ [][op' = "addEdge" =>
            LET src == edgeSrc'
                dest == edgeDest'
                inRange(x) == x \in 0 .. graph.numServers - 1
                rejected == \/ ~inRange(src) \/ ~inRange(dest)
                            \/ src = dest
                            \/ dest \in Dests(graph, src)
            IN  IF rejected
                THEN addRet' = 0 /\ graph' = graph
                ELSE /\ addRet' = 1
                     /\ graph'.numServers = graph.numServers
                     /\ Dests(graph', src) = Dests(graph, src) \cup {dest}
                     /\ Len(graph'.adjList[src]) =
                           Len(graph.adjList[src]) + 1
                     /\ \A k \in 0 .. graph.numServers - 1 :
                           k # src =>
                               graph'.adjList[k] = graph.adjList[k]
         ]_vars
    /\ []NoBadEdges(graph)

\* on 6 servers, edge (2,3) entered a second time and rejected
C8_Witness ==
    /\ driver = "graph" /\ op = "addEdge" /\ graph.numServers = 6
    /\ edgeSrc = 2 /\ edgeDest = 3 /\ addRet = 0
    /\ graph.adjList[2] = <<3>>

\* C9: N servers at equal zero load and N tasks of one equal positive load
\* with no rebalance fired give every server exactly one task (3 servers of
\* capacity 100, 3 tasks of load 10, interval > 3 among them).
C9_OneTaskEach ==
    (/\ Len(log) = numServers
     /\ \A k \in 1 .. Len(log) : log[k].load = log[1].load
     /\ migrations = 0)
    => \A s \in Servers : TasksOf(s) = 1

\* the 3-server scenario run to its end
Scenario3 ==
    /\ driver = "interactive" /\ numServers = 3 /\ numTasks = 3
    /\ \A s \in Servers : servers[s].capacity = FromInt(100)
    /\ \A k \in 0 .. 2 : taskLoads[k] = FromInt(10)
    /\ interval > 3
    /\ Len(log) = 3 /\ migrations = 0
    /\ pc = "done"

C9_Witness == Scenario3 /\ manualCount = 0

\* C10 as stated: the final loads of the scenario are a permutation of
\* [10, 0, 0] and sum to 30.
C10_Original ==
    Scenario3 =>
        /\ \E a \in Servers :
              /\ servers[a].currentLoad = FromInt(10)
              /\ \A s \in Servers \ {a} : servers[s].currentLoad = FromInt(0)
        /\ SumLoads(servers, Servers) = FromInt(30)

\* C10, amended: with 3 servers (capacities 100 each) starting at zero load
\* and 3 tasks each of load 10 assigned sequentially with no rebalance
\* triggered, the final server loads are [10, 10, 10] and sum to 30.
C10_FinalLoads ==
    Scenario3 =>
        /\ \A s \in Servers : servers[s].currentLoad = FromInt(10)
        /\ SumLoads(servers, Servers) = FromInt(30)

C10_Witness == Scenario3 /\ verdict = "well-balanced"

\* C12: in every run of either driver the "Heap capacity exceeded" branch
\* of insertHeap and the "Server not found in heap" branch of updateHeap are
\* never reached: every insertHeap call finds size < capacity and adds an
\* entry, and both updateHeap calls of a migration find their server.
C12_NoDefensiveBranch ==
    [][/\ op' \in {"seedInsert", "insertHeap"} =>
              /\ heap.size < heap.capacity
              /\ heap'.size = heap.size + 1
       /\ (RebalanceStep /\ reb'.fired) =>
              LET A == reb'.mostLoadedIdx
                  B == reb'.leastLoadedIdx
                  h1 == updateHeap(heap, A, servers'[A].currentLoad)
              IN  /\ findIndex(heap, A) # -1
                  /\ findIndex(h1, B) # -1
                  /\ \E k \in 0 .. heap'.size - 1 :
                        heap'.arr[k] = HeapNode(A, servers'[A].currentLoad)
                  /\ \E k \in 0 .. heap'.size - 1 :
                        heap'.arr[k] = HeapNode(B, servers'[B].currentLoad)
      ]_vars

\* a manual rebalance migrated load among three servers
C12_Witness ==
    /\ driver = "interactive" /\ op = "manualRebalance" /\ reb.fired
    /\ numServers = 3 /\ heap.size = heap.capacity

\* C13: the interactive menu loop ends exactly when tasksAssigned reaches
\* numTasks, which happens when all tasks have been assigned (choice 1
\* repeated, or one choice 2) or when the operator chooses exit (5); the
\* exit step changes no server's currentLoad and no heap entry and assigns
\* no task; choices 3 and 4 never end the loop; with an operator who
\* eventually chooses 1, 2 or 5 the loop terminates.
C13_MenuLoopTermination ==
    /\ [][driver = "interactive" =>
            /\ pc = "loop" => (op' = "final" <=> tasksAssigned >= numTasks)
            /\ op' = "final" => pc = "loop" /\ tasksAssigned = numTasks
            /\ (tasksAssigned < numTasks /\ tasksAssigned' >= numTasks) =>
                   /\ tasksAssigned' = numTasks
                   /\ \/ op' = "exit"
                      \/ op' = "insertHeap" /\ Len(log') = numTasks
            /\ op' = "exit" =>
                   /\ tasksAssigned' = numTasks
                   /\ servers' = servers /\ heap' = heap /\ log' = log
                   /\ Len(log') < numTasks
            /\ op' = "loopExit" => Len(log) = numTasks
            /\ op' \in {"manualRebalance", "printServerStates"} =>
                   /\ pc' = "loop" /\ tasksAssigned' = tasksAssigned
                   /\ tasksAssigned' < numTasks
         ]_vars
    /\ (driver = "interactive") ~> (pc = "done")

\* the operator left with tasks unassigned, after a manual rebalance
C13_Witness ==
    /\ driver = "interactive" /\ pc = "done" /\ manualCount = 1
    /\ Len(log) = 2 /\ numTasks = 4 /\ tasksAssigned = numTasks

\* the task counts at which the task loops called rebalanceLoads
CallTasks == [k \in 1 .. Len(calls) |-> calls[k].task]

\* C14: in both drivers rebalanceLoads is invoked automatically immediately
\* after the k-th task assignment, and before the (k+1)-th, exactly when k
\* is a positive multiple of the rebalance interval (single-task and
\* assign-all paths alike), and at no other task count.
C14_PeriodicRebalancing ==
    /\ [][/\ op' = "rebalanceLoads" =>
                 /\ op = "insertHeap" /\ pc = "assigned"
                 /\ Len(log) > 0 /\ Len(log) % interval = 0
                 /\ Len(calls') = Len(calls) + 1
                 /\ calls'[Len(calls')].task = Len(log)
          /\ (op = "insertHeap" /\ Len(log) % interval = 0) =>
                 op' = "rebalanceLoads"
          /\ op' # "rebalanceLoads" => calls' = calls
         ]_vars
    /\ [](pc \in {"loop", "allLoop", "extracted", "done"} =>
             CallTasks = [k \in 1 .. Len(log) \div interval |-> k * interval])

\* four tasks assigned one by one with interval 2: calls after tasks 2 and 4
C14_Witness ==
    /\ driver = "interactive" /\ pc = "done" /\ interval = 2
    /\ Len(log) = 4 /\ CallTasks = <<2, 4>> /\ ~inAll /\ manualCount = 0

\* C16: the imbalance that rebalanceLoads compares against the threshold is
\* the difference between the highest and the lowest server load percentage
\* (currentLoad / capacity x 100) in the fleet at that moment, for any
\* combination of server capacities and loads.
C16_ImbalanceIsPercentSpread ==
    [][RebalanceStep =>
          \E hi, lo \in Servers :
              /\ \A k \in Servers :
                    /\ RLe(Percent(servers[k]), Percent(servers[hi]))
                    /\ RLe(Percent(servers[lo]), Percent(servers[k]))
              /\ reb'.imbalance =
                    RSub(Percent(servers[hi]), Percent(servers[lo]))
      ]_vars

\* the difference between the largest and the smallest currentLoad
LoadSpread ==
    LET hi == CHOOSE s \in Servers : IsMostLoaded(servers, s)
        lo == CHOOSE s \in Servers : IsLeastLoaded(servers, s)
    IN  RSub(servers[hi].currentLoad, servers[lo].currentLoad)

\* C17: at the end of a run the driver reports "well-balanced" if and only
\* if the final difference between the largest and the smallest server
\* currentLoad (absolute load units) is strictly below the threshold (20.0
\* in the automated driver, the operator-chosen one in the interactive
\* driver); otherwise it reports that further rebalancing would help.
C17_FinalVerdict ==
    /\ pc = "done" =>
          /\ verdict \in {"well-balanced", "needs-rebalancing"}
          /\ verdict = "well-balanced" <=> RLt(LoadSpread, threshold)
          /\ driver = "auto" => threshold = FromInt(20)
    /\ pc # "done" => verdict = "none"

\* a run that ended with the load difference equal to the threshold
C17_Witness ==
    /\ pc = "done" /\ verdict = "needs-rebalancing"
    /\ LoadSpread = threshold /\ Len(log) = numTasks

\* C18: the automated driver always terminates: it performs exactly 30 task
\* assignments in order (task 1 to task 30), each to exactly one of the 6
\* servers, evaluates rebalancing exactly 6 times (after tasks 5, 10, 15,
\* 20, 25, 30), and then reaches the final statistics.
C18_AutomatedRun ==
    /\ [](driver = "auto" =>
             /\ numServers = 6 /\ numTasks = 30
             /\ Len(log) <= 30 /\ tasksAssigned = Len(log)
             /\ pc = "done" =>
                    /\ Len(log) = 30
                    /\ CallTasks = <<5, 10, 15, 20, 25, 30>>
                    /\ verdict # "none")
    /\ [][(driver = "auto" /\ log' # log) =>
             /\ Len(log') = Len(log) + 1
             /\ SubSeq(log', 1, Len(log)) = log
             /\ \E s \in 0 .. 5 :
                   /\ log'[Len(log')].server = s
                   /\ servers' = [servers EXCEPT ![s].currentLoad =
                                     RAdd(@, log'[Len(log')].load)]
         ]_vars
    /\ (driver = "auto") ~> (pc = "done")

\* the automated run at its end, with a migration on the way
C18_Witness ==
    /\ driver = "auto" /\ pc = "done" /\ Len(log) = 30 /\ migrations > 0
    /\ Len(calls) = 6

\* the servers as main of load_balancer.c initialises them: no load yet
Unloaded(srv) == [i \in DOMAIN srv |-> [srv[i] EXCEPT !.currentLoad = FromInt(0)]]

\* the loads of tasks 1..numTasks, as the for loop of load_balancer.c
\* numbers them
DrawnLoads == [task \in 1 .. numTasks |-> taskLoads[task - 1]]

\* the run of the task loop of load_balancer.c over the first n tasks
AutomatedRun(n) ==
    simulateTaskAssignment(Unloaded(servers), lb_seededHeap(NUM_SERVERS), n,
                           DrawnLoads)

\* C19: with the server count, capacities, task loads, threshold and
\* interval of the automated driver and no manual rebalance, the interactive
\* run has, after every task, the server chosen for each task, the periodic
\* rebalance calls (task, source, destination, imbalance, amount, fired),
\* the per-server loads and the heap of the task loop of load_balancer.c
\* run over the same tasks
C19_SameAsAutomatedLoop ==
    (/\ driver = "interactive" /\ numServers = NUM_SERVERS
     /\ threshold = FromInt(REBALANCE_THRESHOLD)
     /\ interval = REBALANCE_INTERVAL
     /\ manualCount = 0
     /\ pc \in {"loop", "allLoop", "done"})
    => LET run == AutomatedRun(Len(log))
       IN  /\ log = run.log
           /\ calls = run.calls
           /\ servers = run.servers
           /\ heap = run.heap

\* "assign all remaining tasks" has assigned every task, with a periodic
\* rebalance that migrated load on the way
C19_Witness ==
    /\ driver = "interactive" /\ numServers = NUM_SERVERS
    /\ manualCount = 0 /\ pc = "loop" /\ op = "loopExit"
    /\ Len(log) = numTasks /\ numTasks = ParityTasks
    /\ \E k \in DOMAIN calls : calls[k].reb.fired

\* C20: in every reachable state of either driver every server's
\* currentLoad is >= 0 (task loads being positive): no migration takes from
\* the most loaded server, or from any other, more than it holds
C20_LoadsNonNegative ==
    \A s \in Servers : RLe(FromInt(0), servers[s].currentLoad)

\* a rebalance has just migrated a positive amount from its source
C20_Witness ==
    /\ op \in {"rebalanceLoads", "manualRebalance"}
    /\ reb.fired
    /\ RLt(FromInt(0), reb.migrationAmount)
    /\ RLt(FromInt(0), servers[reb.mostLoadedIdx].currentLoad)

\* the server ids of the entries of heap h
HeapIds(h) == {h.arr[i].serverId : i \in 0 .. h.size - 1}

\* C21: insertHeap on a heap whose size equals its capacity, and updateHeap
\* for a serverId the heap does not hold, leave the size and every entry as
\* they were, and the program goes on (the next call is made from the same
\* place); load_balancer.c does the same on the same heap and arguments
C21_HeapErrorsAreNoOps ==
    [][/\ (op' = "insertHeap" /\ heap.size = heap.capacity)
             => /\ heap' = heap /\ pc' = pc
                /\ lb_insertHeap(heap, heapCall'.serverId, heapCall'.load) = heap
       /\ (op' = "updateHeap" /\ heapCall'.serverId \notin HeapIds(heap))
             => /\ heap' = heap /\ pc' = pc
                /\ lb_updateHeap(heap, heapCall'.serverId, heapCall'.load) = heap
      ]_vars

\* insertHeap was called on a full heap
C21_Witness ==
    /\ driver = "heap" /\ op = "insertHeap"
    /\ heap.size = heap.capacity
    /\ heapCall.serverId \notin HeapIds(heap)

\* updateHeap was called for a server the non-empty heap does not hold
C21_WitnessUpdate ==
    /\ driver = "heap" /\ op = "updateHeap"
    /\ heap.size > 0
    /\ heapCall.serverId \notin HeapIds(heap)

\* the fleet's mean currentLoad
MeanLoad(srv) == RDiv(SumLoads(srv, DOMAIN srv), FromInt(Cardinality(DOMAIN srv)))

\* the loads the entries of heap h carry for server s
HeapLoadsOf(h, s) ==
    {h.arr[i].load : i \in {k \in 0 .. h.size - 1 : h.arr[k].serverId = s}}

\* C22: when a rebalance fires, the amount is exactly half of (currentLoad
\* of the most loaded server - mean currentLoad of the fleet); one pair
\* (most loaded, least loaded) is adjusted, once, by that amount; every
\* other server is left as it was; the heap entries of the two servers
\* carry their new loads and no other entry's load changes; rebalanceLoads
\* of load_balancer.c gives the same registry and heap
C22_SinglePairMigration ==
    [][(RebalanceStep /\ reb'.fired) =>
          LET A == reb'.mostLoadedIdx
              B == reb'.leastLoadedIdx
              M == reb'.migrationAmount
          IN  /\ A \in Servers /\ B \in Servers /\ A # B
              /\ IsMostLoaded(servers, A) /\ IsLeastLoaded(servers, B)
              /\ M = RMul(RSub(servers[A].currentLoad, MeanLoad(servers)),
                          Rat(1, 2))
              /\ servers' = [s \in Servers |->
                    IF s = A
                    THEN [servers[s] EXCEPT !.currentLoad = RSub(@, M)]
                    ELSE IF s = B
                    THEN [servers[s] EXCEPT !.currentLoad = RAdd(@, M)]
                    ELSE servers[s]]
              /\ heap'.size = heap.size
              /\ \A s \in Servers :
                    HeapLoadsOf(heap', s) =
                        IF s \in {A, B} THEN {servers'[s].currentLoad}
                        ELSE HeapLoadsOf(heap, s)
              /\ LET r == lb_rebalanceLoads(servers, numServers, threshold,
                                            heap)
                 IN  r.servers = servers' /\ r.heap = heap' /\ r.reb = reb'
      ]_vars

\* a migration among three servers, the third holding a load of its own
C22_Witness ==
    /\ op \in {"rebalanceLoads", "manualRebalance"} /\ reb.fired
    /\ numServers = 3
    /\ \E s \in Servers :
          /\ s \notin {reb.mostLoadedIdx, reb.leastLoadedIdx}
          /\ RLt(FromInt(0), servers[s].currentLoad)
          /\ HeapLoadsOf(heap, s) = {servers[s].currentLoad}

\* C24: menu choice 3 calls rebalanceLoads whatever the task count (it
\* migrates exactly when the imbalance exceeds the threshold), leaves
\* tasksAssigned and the task loads still to assign as they were, and the
\* periodic rebalance keeps running after the tasks whose number is a
\* multiple of the interval, and one per task assigned the loads are taken
\* in their order; menu choice 4 changes no server, heap entry or counter
C24_ManualRebalanceAndStatus ==
    /\ [][/\ op' = "manualRebalance" =>
                 /\ reb'.mostLoadedIdx \in Servers
                 /\ reb'.leastLoadedIdx \in Servers
                 /\ reb'.fired <=>
                       RLt(threshold,
                           RSub(Percent(servers[reb'.mostLoadedIdx]),
                                Percent(servers[reb'.leastLoadedIdx])))
                 /\ reb'.fired => servers' # servers
                 /\ tasksAssigned' = tasksAssigned
                 /\ taskLoads' = taskLoads /\ numTasks' = numTasks
                 /\ interval' = interval /\ threshold' = threshold
                 /\ log' = log /\ calls' = calls /\ pc' = pc
          /\ op' = "printServerStates" =>
                 /\ servers' = servers /\ heap' = heap
                 /\ tasksAssigned' = tasksAssigned
                 /\ taskLoads' = taskLoads /\ numTasks' = numTasks
                 /\ log' = log /\ calls' = calls
                 /\ migrations' = migrations /\ pc' = pc
         ]_vars
    /\ []((driver = "interactive" /\ manualCount > 0
             /\ pc \in {"loop", "allLoop", "extracted"}) =>
            /\ CallTasks = [k \in 1 .. Len(log) \div interval |-> k * interval]
            /\ (op # "exit" => tasksAssigned = Len(log))
            /\ \A k \in 1 .. Len(log) : log[k].load = taskLoads[k - 1])

\* a manual rebalance that migrated load when the task count was not a
\* multiple of the interval
C24_Witness ==
    /\ op = "manualRebalance" /\ reb.fired
    /\ tasksAssigned % interval # 0

\* a periodic rebalance after a manual one made between two periodic ones
C24_WitnessLater ==
    /\ op = "rebalanceLoads" /\ manualCount > 0
    /\ interval = 2 /\ Len(calls) = 2 /\ migrations >= 2

\* the destinations of the edges of source src in l, in the order of l
RECURSIVE DestsInOrder(_, _)
DestsInOrder(l, src) ==
    IF l = <<>> THEN <<>>
    ELSE (IF Head(l)[1] = src THEN <<Head(l)[2]>> ELSE <<>>)
         \o DestsInOrder(Tail(l), src)

Reverse(q) == [k \in 1 .. Len(q) |-> q[Len(q) + 1 - k]]

\* C26: addEdge inserts at the head of the list of its source: after the
\* edges src->d1, ..., src->dk have been added in that order, the adjacency
\* list of src, walked from its head as printGraph does, is dk, ..., d1; an
\* addEdge call leaves the lists of all other sources as they were, and
\* addEdge of load_balancer.c builds the same list
C26_HeadInsertion ==
    /\ [][(op' = "addEdge" /\ edgeLog' # edgeLog) =>
            /\ edgeLog' = Append(edgeLog, <<edgeSrc', edgeDest'>>)
            /\ graph'.adjList[edgeSrc'] =
                   <<edgeDest'>> \o graph.adjList[edgeSrc']
            /\ \A k \in 0 .. graph.numServers - 1 :
                   k # edgeSrc' => graph'.adjList[k] = graph.adjList[k]
            /\ lb_addEdge(graph, edgeSrc', edgeDest') = graph'
         ]_vars
    /\ [](\A src \in 0 .. graph.numServers - 1 :
             graph.adjList[src] = Reverse(DestsInOrder(edgeLog, src)))

\* two edges added from one source, another source in between or not: the
\* list holds the later edge first
C26_Witness ==
    /\ driver = "graph" /\ Len(edgeLog) >= 2
    /\ \E src \in 0 .. graph.numServers - 1 :
          /\ Len(graph.adjList[src]) = 2
          /\ graph.adjList[src][1] # graph.adjList[src][2]
          /\ DestsInOrder(edgeLog, src) =
                <<graph.adjList[src][2], graph.adjList[src][1]>>

\* the servers the heap holds an entry for, by the position of the program
Seated ==
    IF pc = "seed" THEN 0 .. seedI - 1
    ELSE IF pc = "extracted" THEN Servers \ {minServer.serverId}
    ELSE Servers

\* C27: in every reachable state of either driver between two operations
\* (during and after seeding, after each completed task assignment, after
\* each rebalance) the heap entry of server s carries servers[s].currentLoad,
\* for every server s; between the extractMin and the insertHeap of one
\* assignment this holds of every server but the one extracted
C27_HeapMatchesRegistry ==
    /\ \A s \in Seated : HeapLoadsOf(heap, s) = {servers[s].currentLoad}
    /\ \A s \in Servers \ Seated : HeapLoadsOf(heap, s) = {}

\* after a migration and a further assignment, three servers at three
\* different loads
C27_Witness ==
    /\ pc = "assigned" /\ migrations > 0 /\ numServers = 3
    /\ \A a, b \in Servers :
          a # b => servers[a].currentLoad # servers[b].currentLoad

\* the largest load among the tasks assigned so far (0 when there is none)
RECURSIVE LargestTask(_)
LargestTask(l) ==
    IF l = <<>> THEN FromInt(0)
    ELSE LET rest == LargestTask(Tail(l))
         IN  IF RLt(rest, Head(l).load) THEN Head(l).load ELSE rest

\* C28: starting from all servers at zero load, after any sequence of task
\* assignments and rebalances the largest currentLoad minus the smallest is
\* at most the largest single task load assigned so far
C28_BoundedSpread ==
    \A a, b \in Servers :
        RLe(RSub(servers[a].currentLoad, servers[b].currentLoad),
            LargestTask(log))

\* after a migration, two servers whose loads differ by exactly the largest
\* task load assigned
C28_Witness ==
    /\ migrations > 0 /\ pc = "assigned" /\ numServers = 3
    /\ \E a, b \in Servers :
          RSub(servers[a].currentLoad, servers[b].currentLoad) =
              LargestTask(log)

\* C29: whenever a rebalance fires, source and destination are two
\* different servers, the amount migrated is strictly positive, the source's
\* load after the migration is still >= the destination's, no server ends
\* above the largest load of before and none below the smallest
C29_NoOvershoot ==
    [][(RebalanceStep /\ reb'.fired) =>
          LET A == reb'.mostLoadedIdx
              B == reb'.leastLoadedIdx
          IN  /\ A # B
              /\ RLt(FromInt(0), reb'.migrationAmount)
              /\ RLt(servers'[A].currentLoad, servers[A].currentLoad)
              /\ RLt(servers[B].currentLoad, servers'[B].currentLoad)
              /\ RLe(servers'[B].currentLoad, servers'[A].currentLoad)
              /\ \A s \in Servers :
                    /\ \E t \in Servers : RLe(servers'[s].currentLoad,
                                               servers[t].currentLoad)
                    /\ \E t \in Servers : RLe(servers[t].currentLoad,
                                               servers'[s].currentLoad)
      ]_vars

\* a migration among three servers that left the source strictly above the
\* destination
C29_Witness ==
    /\ op \in {"rebalanceLoads", "manualRebalance"} /\ reb.fired
    /\ numServers = 3
    /\ RLt(servers[reb.leastLoadedIdx].currentLoad,
           servers[reb.mostLoadedIdx].currentLoad)

\* the program is at a place where its next statement may be extractMin
BeforeExtract ==
    \/ driver = "interactive" /\ pc = "loop" /\ tasksAssigned < numTasks
    \/ pc = "allLoop" /\ LoopCond

\* C30: in every run of either driver extractMin is only called on a heap
\* that holds one entry per server (size = number of servers >= 1), so
\* arr[0] and arr[size - 1] are entries of the heap, inside [0, capacity)
C30_ExtractMinPrecondition ==
    /\ [](BeforeExtract =>
            /\ numServers >= 1
            /\ heap.size = numServers
            /\ heap.size <= heap.capacity
            /\ {0, heap.size - 1} \subseteq DOMAIN heap.arr)
    /\ [][op' = "extractMin" =>
            /\ BeforeExtract
            /\ minServer' = heap.arr[0]
            /\ heap'.size = heap.size - 1
         ]_vars

\* extractMin was called on the heap of a single server: arr[0] is also
\* arr[size - 1]
C30_Witness ==
    /\ op = "extractMin" /\ numServers = 1
    /\ heap.size = 0 /\ minServer.serverId = 0
    /\ Len(log) > 0

(***************************************************************************)
(* Menu choice 2 as one step: the while loop of case 2, run from a state   *)
(* of the simulation to its end.  A run is [servers, heap, tasksAssigned,  *)
(* log, calls].                                                            *)
(***************************************************************************)
\* if (tasksAssigned % interval == 0) rebalanceLoads(...), at the end of an
\* iteration
iterationEnd(run) ==
    LET r == rebalanceLoads(run.servers, numServers, threshold, run.heap)
    IN  IF run.tasksAssigned % interval = 0
        THEN [run EXCEPT !.servers = r.servers, !.heap = r.heap,
                         !.calls = Append(@, [task |-> run.tasksAssigned,
                                              reb |-> r.reb])]
        ELSE run

\* the iteration from the assignment on, for the node extracted and the load
\* read
iterationAssign(run, node, load) ==
    LET newLoad == RAdd(run.servers[node.serverId].currentLoad, load)
    IN  [run EXCEPT
           !.servers = [@ EXCEPT ![node.serverId].currentLoad = newLoad],
           !.heap = insertHeap(@, node.serverId, newLoad),
           !.tasksAssigned = @ + 1,
           !.log = Append(@, [server |-> node.serverId, load |-> load])]

\* one iteration of the loop of case 2
assignAllIteration(run) ==
    LET ex == extractMin(run.heap)
    IN  iterationEnd(iterationAssign([run EXCEPT !.heap = ex.heap], ex.min,
                                     taskLoads[run.tasksAssigned]))

\* while (tasksAssigned < taskData->numTasks) { ... }
RECURSIVE assignAllRemaining(_)
assignAllRemaining(run) ==
    IF run.tasksAssigned < numTasks
    THEN assignAllRemaining(assignAllIteration(run))
    ELSE run

\* the run so far
Current ==
    [servers |-> servers, heap |-> heap, tasksAssigned |-> tasksAssigned,
     log |-> log, calls |-> calls]

\* where the program is, with the run so far and the locals of an
\* assignment in progress
Position ==
    [pc |-> pc, minServer |-> minServer, taskLoad |-> taskLoad,
     run |-> Current]

\* the run "assign all remaining tasks" ends with when it takes over from
\* position at (an assignment in progress is finished first)
BatchOutcome(at) ==
    assignAllRemaining(
        IF at.pc = "extracted"
        THEN iterationEnd(iterationAssign(at.run, at.minServer, at.taskLoad))
        ELSE IF at.pc = "assigned"
        THEN iterationEnd(at.run)
        ELSE at.run)

\* a step of a task assignment, by choice 1 or inside choice 2
AssignmentStep ==
    /\ driver = "interactive"
    /\ op' \in {"extractMin", "insertHeap", "rebalanceLoads", "noRebalance",
                 "assignAll", "loopExit"}

\* C31: in the interactive driver, from any reachable state with r tasks
\* remaining, "assign next task" chosen r times in a row and "assign all
\* remaining tasks" chosen once end with the same servers chosen per task,
\* the same rebalance calls, the same server loads and the same heap: every
\* step of an assignment, on either path, leaves the outcome of assigning
\* all remaining tasks as it was, and when no task remains that outcome is
\* the state reached
C31_StepwiseEqualsBatch ==
    /\ [][AssignmentStep =>
            \A after \in {Position'} :
                BatchOutcome(after) = BatchOutcome(Position)]_vars
    /\ []((driver = "interactive" /\ pc \in {"loop", "done"}
             /\ tasksAssigned >= numTasks) =>
            BatchOutcome(Position) = Current)

\* every task was assigned by "assign next task", four of them, with a
\* periodic rebalance that migrated load
C31_Witness ==
    /\ driver = "interactive" /\ pc = "loop" /\ ~inAll
    /\ op \in {"rebalanceLoads", "noRebalance"}
    /\ Len(log) = numTasks /\ numTasks = MaxTasks
    /\ \E k \in DOMAIN calls : calls[k].reb.fired

\* "assign all remaining tasks" took over after one task and assigned the
\* other three, with a periodic rebalance that migrated load
C31_WitnessBatch ==
    /\ driver = "interactive" /\ pc = "loop" /\ op = "loopExit"
    /\ Len(log) = numTasks /\ numTasks = MaxTasks
    /\ \E k \in DOMAIN calls : calls[k].reb.fired

\* exit has been chosen: the cursor was moved past tasks never assigned
Exited == tasksAssigned > Len(log)

\* C32: in the interactive driver tasksAssigned starts at 0, never
\* decreases and never exceeds numTasks; every assignment reads
\* taskLoads[tasksAssigned] with 0 <= tasksAssigned < numTasks and moves the
\* cursor by one, so the k-th task assigned carries the k-th load of the
\* list and no load is assigned twice; after exit has been chosen no task
\* is assigned and the program goes to its final statistics
C32_TaskCursor ==
    /\ [](driver = "interactive" =>
            /\ pc = "seed" => tasksAssigned = 0
            /\ tasksAssigned \in 0 .. numTasks
            /\ Len(log) <= tasksAssigned
            /\ ~Exited => tasksAssigned = Len(log)
            /\ \A k \in 1 .. Len(log) : log[k].load = taskLoads[k - 1])
    /\ [][driver = "interactive" =>
            /\ tasksAssigned' >= tasksAssigned
            /\ op' = "extractMin" =>
                   /\ tasksAssigned \in 0 .. numTasks - 1
                   /\ taskLoad' = taskLoads[tasksAssigned]
                   /\ tasksAssigned' = tasksAssigned
            /\ op' = "insertHeap" =>
                   /\ tasksAssigned' = tasksAssigned + 1
                   /\ log' = Append(log, [server |-> minServer.serverId,
                                          load |-> taskLoads[tasksAssigned]])
            /\ op' \notin {"insertHeap", "exit"} =>
                   tasksAssigned' = tasksAssigned /\ log' = log
            /\ op' = "exit" => tasksAssigned' = numTasks /\ log' = log
            /\ Exited => /\ op' = "final"
                         /\ log' = log /\ servers' = servers /\ heap' = heap
         ]_vars

\* exit chosen after two of four tasks, the second load of the list
\* differing from the first, and the program at its final statistics
C32_Witness ==
    /\ driver = "interactive" /\ pc = "done" /\ Exited
    /\ numTasks = MaxTasks /\ Len(log) = 2
    /\ taskLoads[0] # taskLoads[1]
    /\ log[2].load = taskLoads[1]

=============================================================================
